---- MODULE Spec2Model ----
(***************************************************************************)
(* A model of market-metrics.py: the USMarketMetrics class (resolvers,     *)
(* catalog, aggregator, single-indicator lookup, CSV exporter).            *)
(*                                                                         *)
(* Numbers are fixed-point integers in hundredths (650 is 6.50).  A Python *)
(* value is a record [t, n, s, sub]: t is its type ("null", "num", "inf",  *)
(* "nan", "str", "dict"), n its number, s its text and sub the items of a  *)
(* dict, in insertion order, each [k |-> key, v |-> value].                *)
(***************************************************************************)
EXTENDS Integers, Sequences, FiniteSets, TLC

VARIABLES
    inst,       \* instance id -> [alive, path, headers, sawData, exportFailed,
                \* initFailed]
    sink,       \* the lines of the CSV file at csv_export_path, in order
    sinkExists, \* whether that file exists (os.path.isfile)
    tmpFiles,   \* the temporary spreadsheet files that exist
    ret,        \* what the last call did: its operation, arguments, outcome,
                \* whether it got as far as invoking the resolver, the mapping
                \* it passed to the export, and the record without an export
    nCalls,     \* the number of top-level calls made so far
    agg,        \* get_all_metrics in progress: position, metrics, per-step log
    flat,       \* the input and output of the last direct flattening
    res,        \* a resolver run on its own: name, environment, outcome
    mrg         \* two runs of the merge of get_all_metrics on the same results

vars == <<inst, sink, sinkExists, tmpFiles, ret, nCalls, agg, flat, res, mrg>>

----------------------------------------------------------------------------
(* Python values *)

Null == [t |-> "null", n |-> 0, s |-> "", sub |-> <<>>]
Num(x) == [t |-> "num", n |-> x, s |-> "", sub |-> <<>>]
\* float('inf') / float('-inf') (n is the sign) and float('nan')
Inf(sign) == [t |-> "inf", n |-> sign, s |-> "", sub |-> <<>>]
NaN == [t |-> "nan", n |-> 0, s |-> "", sub |-> <<>>]
\* a string of free text
Str(text) == [t |-> "str", n |-> 0, s |-> text, sub |-> <<>>]
\* a string that spells the number x followed by suffix: "4.60", "4.60%"
NumeralStr(x, suffix) == [t |-> "str", n |-> x, s |-> "#" \o suffix, sub |-> <<>>]
\* an object of another type (a datetime, a Timestamp)
Obj(x) == [t |-> "obj", n |-> x, s |-> "", sub |-> <<>>]
\* a date formatted '%Y-%m-%d': day number d
Date(d) == [t |-> "str", n |-> d, s |-> "date", sub |-> <<>>]
\* str() of a spreadsheet date cell
DateTimeStr(v) == [t |-> "str", n |-> v.n, s |-> "datetime", sub |-> <<>>]
Dict(items) == [t |-> "dict", n |-> 0, s |-> "", sub |-> items]

IsDict(v) == v.t = "dict"
IsNumber(v) == v.t \in {"num", "inf", "nan"}
\* Python truthiness of a value the program tests with "if value:"
Truthy(v) ==
    CASE v.t = "null" -> FALSE
      [] v.t = "num" -> v.n # 0
      [] v.t = "str" -> v.s # ""
      [] v.t = "dict" -> Len(v.sub) > 0
      [] OTHER -> TRUE

Entry(key, val) == [k |-> key, v |-> val]
Keys(items) == {items[i].k : i \in 1..Len(items)}
HasKey(items, key) == \E i \in 1..Len(items) : items[i].k = key
Get(items, key) == items[CHOOSE i \in 1..Len(items) : items[i].k = key].v
\* d.setdefault(key, val): the value a key has is kept
PutKeepingFirst(items, key, val) ==
    IF HasKey(items, key) THEN items ELSE Append(items, Entry(key, val))
\* d[key] = val: replaces in place, or appends a new key
Put(items, key, val) ==
    IF HasKey(items, key)
    THEN [i \in 1..Len(items) |->
            IF items[i].k = key THEN Entry(key, val) ELSE items[i]]
    ELSE Append(items, Entry(key, val))
\* d.pop(key)
Pop(items, key) == SelectSeq(items, LAMBDA e : e.k # key)

RECURSIVE PutAll(_, _)
\* for key, value in src.items(): dst[key] = value
PutAll(dst, src) ==
    IF src = <<>> THEN dst
    ELSE PutAll(Put(dst, Head(src).k, Head(src).v), Tail(src))

IsPrefix(a, b) == Len(a) <= Len(b) /\ SubSeq(b, 1, Len(a)) = a

----------------------------------------------------------------------------
(* Fixed-point arithmetic on floats *)

\* a / b on numpy floats: division by zero gives inf or nan, never raises
NpDiv(a, b, scale) ==
    IF b # 0 THEN Num((a * scale) \div b)
    ELSE IF a > 0 THEN Inf(1) ELSE IF a < 0 THEN Inf(-1) ELSE NaN
\* ((a / b) - 1) * 100, in hundredths of a percent
PctChange(a, b) ==
    LET q == NpDiv(a, b, 10000)
    IN IF q.t = "num" THEN Num(q.n - 10000) ELSE q

----------------------------------------------------------------------------
(* Provider outcomes *)

\* yf.Ticker(symbol).info.get(field): raises, or gives None or a number
YRaise == [st |-> "raise", v |-> Null]
YOk(v) == [st |-> "ok", v |-> v]
\* fred.get_series(id): raises, or gives a series of observations
\* [d, x, nan]: the day, the number, and whether the observation is missing
\* (FRED's "." for a day without a value, a NaN in the series)
FRaise == [st |-> "raise", obs |-> <<>>]
FOk(series) == [st |-> "ok", obs |-> series]
\* a series of n observations: day d0 + i holds a + b * i
Ramp(n, d0, a, b) ==
    [i \in 1..n |-> [d |-> d0 + i, x |-> a + b * i, nan |-> FALSE]]
\* the series with its last observation missing
NaNLast(series) == [series EXCEPT ![Len(series)].nan = TRUE]
\* the float an observation holds
ObsVal(ob) == IF ob.nan THEN NaN ELSE Num(ob.x)

Last(series) == series[Len(series)]
\* series.iloc[-k]
Back(series, k) == series[Len(series) - k + 1]

----------------------------------------------------------------------------
(* Resolver plumbing *)

\* what a call gives its caller: a value, or an exception that propagates
Ret(v) == [raised |-> FALSE, val |-> v]
Raised == [raised |-> TRUE, val |-> Null]

\* _log_error logs and returns None
_log_error == Null

\* _safe_get_fred_series: the series, or None when the provider raises
NoSeries == [none |-> TRUE, obs |-> <<>>]
_safe_get_fred_series(o) ==
    IF o.st = "raise" THEN NoSeries ELSE [none |-> FALSE, obs |-> o.obs]
\* "x is None or x.empty"
Missing(series) == series.none \/ series.obs = <<>>

----------------------------------------------------------------------------
(* Direct lookups (Yahoo Finance) *)

\* the lookup without its try/except
TickerInfoUnguarded(o) ==
    IF o.st = "raise" THEN Raised
    ELSE IF Truthy(o.v) THEN Ret(Num(o.v.n))
    ELSE Ret(Null)

_get_ticker_info(o) ==
    IF o.st = "raise" THEN Ret(_log_error)
    ELSE IF Truthy(o.v) THEN Ret(Num(o.v.n))
    ELSE Ret(Null)

get_pe_ratio(o) == _get_ticker_info(o)

get_asset_price(o) ==
    IF o.st = "raise" THEN Ret(_log_error)
    ELSE IF Truthy(o.v) THEN Ret(Num(o.v.n))
    ELSE Ret(Null)

get_gold_price(o) == get_asset_price(o)
get_bitcoin_price(o) == get_asset_price(o)
get_wti_crude_price(o) == get_asset_price(o)

\* the names whose resolver is a direct lookup
DirectNames == {"US P/E Ratio", "Gold Price", "Bitcoin Price", "WTI Crude Oil Price"}

\* a lookup that asks the provider again when the first call raised
DirectLookupRetrying(name, ys) ==
    IF ys[1].st # "raise"
    THEN [val |-> _get_ticker_info(ys[1]).val, calls |-> 1]
    ELSE [val |-> _get_ticker_info(ys[2]).val, calls |-> 2]

\* a direct lookup against a provider whose successive calls would answer
\* ys[1], ys[2], ...: ticker.info.get(...) is evaluated once, and neither
\* branch of the if nor the except clause evaluates it again
DirectLookup(name, ys) ==
    [val |-> IF name = "US P/E Ratio" THEN get_pe_ratio(ys[1]).val
             ELSE get_asset_price(ys[1]).val,
     calls |-> 1]

----------------------------------------------------------------------------
(* Series lookups (FRED) *)

\* int(spread*100) in the print of the spread raises for a NaN, and the
\* resolver's except branch returns _log_error(...)
get_credit_spreads(oBaa, oDgs) ==
    LET baa_yield == _safe_get_fred_series(oBaa)
        treasury_10y == _safe_get_fred_series(oDgs)
    IN IF Missing(baa_yield) \/ Missing(treasury_10y)
       THEN Ret(Dict(<<Entry("baa_yield", Null), Entry("treasury_10y", Null),
                       Entry("baa_spread", Null)>>))
       ELSE LET latest_baa == ObsVal(Last(baa_yield.obs))
                latest_10y == ObsVal(Last(treasury_10y.obs))
                spread == IF latest_baa.t = "nan" \/ latest_10y.t = "nan" THEN NaN
                          ELSE Num(latest_baa.n - latest_10y.n)
            IN IF spread.t = "nan" THEN Ret(_log_error)
               ELSE Ret(Dict(<<Entry("baa_yield", latest_baa),
                               Entry("treasury_10y", latest_10y),
                               Entry("baa_spread", spread)>>))

get_market_to_gdp(o) ==
    LET market_to_gdp == _safe_get_fred_series(o)
    IN IF Missing(market_to_gdp) THEN Ret(Null)
       ELSE Ret(ObsVal(Last(market_to_gdp.obs)))

\* a composite that gives each sub-key whatever its own series has
GdpMetricsPerSeries(oGdp, oGrowth) ==
    LET gdp == _safe_get_fred_series(oGdp)
        gdp_growth == _safe_get_fred_series(oGrowth)
    IN Ret(Dict(<<Entry("gdp", IF Missing(gdp) THEN Null ELSE Num(Last(gdp.obs).x)),
                  Entry("gdp_growth", IF Missing(gdp_growth) THEN Null
                                      ELSE Num(Last(gdp_growth.obs).x))>>))

get_gdp_metrics(oGdp, oGrowth) ==
    LET gdp == _safe_get_fred_series(oGdp)
        gdp_growth == _safe_get_fred_series(oGrowth)
    IN IF Missing(gdp) \/ Missing(gdp_growth)
       THEN Ret(Dict(<<Entry("gdp", Null), Entry("gdp_growth", Null)>>))
       ELSE Ret(Dict(<<Entry("gdp", ObsVal(Last(gdp.obs))),
                       Entry("gdp_growth", ObsVal(Last(gdp_growth.obs)))>>))

get_government_metrics(oDebt, oDeficit, oGdp) ==
    LET govt_debt == _safe_get_fred_series(oDebt)
        govt_deficit == _safe_get_fred_series(oDeficit)
    IN IF Missing(govt_debt) \/ Missing(govt_deficit)
       THEN Ret(Dict(<<Entry("govt_debt", Null), Entry("govt_deficit", Null),
                       Entry("debt_to_gdp", Null)>>))
       ELSE LET latest_debt == Last(govt_debt.obs).x
                latest_deficit == Last(govt_deficit.obs).x
                gdp == _safe_get_fred_series(oGdp)
                debt_to_gdp ==
                    IF Missing(gdp) THEN Null
                    ELSE NpDiv(latest_debt, Last(gdp.obs).x, 10000)
            IN Ret(Dict(<<Entry("govt_debt", Num(latest_debt)),
                          Entry("govt_deficit", Num(latest_deficit)),
                          Entry("debt_to_gdp", debt_to_gdp)>>))

get_10yr_yield(o) ==
    LET treasury_10y == _safe_get_fred_series(o)
    IN IF Missing(treasury_10y) THEN Ret(Null)
       ELSE Ret(ObsVal(Last(treasury_10y.obs)))

\* the sample sizes the year-over-year computations need
MinInflationObs == 13
MinEarningsObs == 5

\* a base one position late: cpi.iloc[-12]
InflationElevenBack(o) ==
    LET cpi == _safe_get_fred_series(o)
    IN IF Missing(cpi) \/ Len(cpi.obs) < MinInflationObs THEN Ret(Null)
       ELSE Ret(PctChange(Last(cpi.obs).x, Back(cpi.obs, MinInflationObs - 1).x))

\* a computation from the first observation when there are fewer than 13
InflationFromWhatThereIs(o) ==
    LET cpi == _safe_get_fred_series(o)
    IN IF Missing(cpi) THEN Ret(Null)
       ELSE IF Len(cpi.obs) < MinInflationObs
       THEN Ret(PctChange(Last(cpi.obs).x, cpi.obs[1].x))
       ELSE Ret(PctChange(Last(cpi.obs).x, Back(cpi.obs, MinInflationObs).x))

get_inflation_rate(o) ==
    LET cpi == _safe_get_fred_series(o)
    IN IF Missing(cpi) \/ Len(cpi.obs) < MinInflationObs THEN Ret(Null)
       ELSE Ret(PctChange(Last(cpi.obs).x, Back(cpi.obs, MinInflationObs).x))

\* fred.get_series('CP') is called unguarded inside the try
get_earnings_growth(o) ==
    IF o.st = "raise" THEN Ret(_log_error)
    ELSE IF Len(o.obs) < MinEarningsObs
    THEN Ret(Dict(<<Entry("growth_rate", Null)>>))
    ELSE LET recent == Last(o.obs)
             year_ago == Back(o.obs, MinEarningsObs)
         IN IF year_ago.x <= 0
            THEN Ret(Dict(<<Entry("growth_rate", Null)>>))
            ELSE Ret(Dict(<<Entry("growth_rate", PctChange(recent.x, year_ago.x)),
                            Entry("recent_value", Num(recent.x)),
                            Entry("year_ago_value", Num(year_ago.x)),
                            Entry("recent_date", Date(recent.d)),
                            Entry("year_ago_date", Date(year_ago.d))>>))

----------------------------------------------------------------------------
(* Spreadsheet lookups (Shiller, Damodaran) *)

ShillerTemp == "shiller_temp.xls"
DamodaranTemp == "damodaran_temp.xlsx"

\* float(v): [ok, val]; ValueError / TypeError is ok = FALSE
ToFloat(v) ==
    CASE IsNumber(v) -> [ok |-> TRUE, val |-> v]
      [] v.t = "str" /\ v.s = "#" -> [ok |-> TRUE, val |-> Num(v.n)]
      [] OTHER -> [ok |-> FALSE, val |-> Null]
\* text.replace('%', '').strip()
StripPercent(v) == IF v.s = "#%" THEN [v EXCEPT !.s = "#"] ELSE v

\* _download_file: "fail" (request raised or status not 200), "partial" (the
\* file was opened and the write raised), "ok".  Gives [ok, tmp].
_download_file(dl, name, tmp) ==
    CASE dl = "fail" -> [ok |-> FALSE, tmp |-> tmp]
      [] dl = "partial" -> [ok |-> FALSE, tmp |-> tmp \cup {name}]
      [] OTHER -> [ok |-> TRUE, tmp |-> tmp \cup {name}]

\* a resolver's outcome together with the temporary files it leaves
Out(r, tmp) == [raised |-> r.raised, val |-> r.val, tmp |-> tmp]

\* the except branch of a spreadsheet resolver: remove the file if it exists
\* (os.remove may raise, and that propagates), then _log_error
SheetHandler(name, rm2, tmp) ==
    IF name \in tmp
    THEN IF rm2 = "raise" THEN Out(Raised, tmp)
         ELSE Out(Ret(_log_error), tmp \ {name})
    ELSE Out(Ret(_log_error), tmp)

\* pd.read_excel raises, or gives a table: whether the column is found, the
\* last valid cell of it (Null when there is none) and that row's date
TabRaise == [st |-> "raise", hasCol |-> FALSE, cell |-> Null, date |-> Null]
Tab(hasCol, cell, date) ==
    [st |-> "ok", hasCol |-> hasCol, cell |-> cell, date |-> date]

get_cape_ratio(dl, tab, rm1, rm2, tmp) ==
    LET d == _download_file(dl, ShillerTemp, tmp)
    IN IF ~d.ok THEN Out(Ret(Null), d.tmp)
       ELSE IF tab.st = "raise" \/ ~tab.hasCol \/ tab.cell = Null
       THEN SheetHandler(ShillerTemp, rm2, d.tmp)
       ELSE IF rm1 = "raise" THEN SheetHandler(ShillerTemp, rm2, d.tmp)
       ELSE LET f == ToFloat(tab.cell)
            IN IF f.ok THEN Out(Ret(f.val), d.tmp \ {ShillerTemp})
               ELSE SheetHandler(ShillerTemp, rm2, d.tmp \ {ShillerTemp})

\* the fallback get_cape_ratio never calls
_get_cape_from_fred(o) ==
    IF o.st = "raise" THEN Ret(_log_error)
    ELSE IF o.obs # <<>> THEN Ret(ObsVal(Last(o.obs)))
    ELSE Ret(Null)

\* the computation with "if pe_ratio:" for its guard
CalculateErpWithoutSignGuard(oPe, oDgs) ==
    LET pe_ratio == get_pe_ratio(oPe).val
    IN IF Truthy(pe_ratio)
       THEN LET earnings_yield == 1000000 \div pe_ratio.n
                risk_free_rate == get_10yr_yield(oDgs).val
            IN IF risk_free_rate = Null
               THEN Ret(Dict(<<Entry("value", Null)>>))
               ELSE Ret(Dict(<<Entry("value", Num(earnings_yield - risk_free_rate.n)),
                               Entry("earnings_yield", Num(earnings_yield)),
                               Entry("risk_free_rate", risk_free_rate)>>))
       ELSE Ret(Dict(<<Entry("value", Null)>>))

_calculate_equity_risk_premium(oPe, oDgs) ==
    LET pe_ratio == get_pe_ratio(oPe).val
    IN IF Truthy(pe_ratio) /\ pe_ratio.n > 0
       THEN LET earnings_yield == 1000000 \div pe_ratio.n
                risk_free_rate == get_10yr_yield(oDgs).val
            IN IF risk_free_rate = Null
               THEN Ret(Dict(<<Entry("value", Null)>>))
               ELSE IF risk_free_rate.t = "nan"
               THEN Ret(Dict(<<Entry("value", NaN),
                               Entry("earnings_yield", Num(earnings_yield)),
                               Entry("risk_free_rate", risk_free_rate)>>))
               ELSE Ret(Dict(<<Entry("value", Num(earnings_yield - risk_free_rate.n)),
                               Entry("earnings_yield", Num(earnings_yield)),
                               Entry("risk_free_rate", risk_free_rate)>>))
       ELSE Ret(Dict(<<Entry("value", Null)>>))

\* the cell after the float conversions: [ok, val]; ok = FALSE raises
ErpCoerce(cell) ==
    LET f == ToFloat(cell)
    IN IF f.ok THEN f
       ELSE IF cell.t = "str" THEN ToFloat(StripPercent(cell))
       ELSE [ok |-> TRUE, val |-> cell]

get_equity_risk_premium(imp, dl, tab, rm1, rm2, oPe, oDgs, tmp) ==
    IF ~imp THEN Out(_calculate_equity_risk_premium(oPe, oDgs), tmp)
    ELSE LET d == _download_file(dl, DamodaranTemp, tmp)
         IN IF ~d.ok THEN Out(_calculate_equity_risk_premium(oPe, oDgs), d.tmp)
            ELSE IF tab.st = "raise" \/ ~tab.hasCol \/ tab.cell = Null
            THEN SheetHandler(DamodaranTemp, rm2, d.tmp)
            ELSE LET c == ErpCoerce(tab.cell)
                 IN IF ~c.ok THEN SheetHandler(DamodaranTemp, rm2, d.tmp)
                    ELSE IF rm1 = "raise"
                    THEN SheetHandler(DamodaranTemp, rm2, d.tmp)
                    ELSE Out(Ret(Dict(<<Entry("value", c.val),
                                        Entry("date", DateTimeStr(tab.date))>>)),
                             d.tmp \ {DamodaranTemp})

----------------------------------------------------------------------------
(* Catalog *)

AllMetrics == "US All Metrics"

\* get_metric_definitions: the names in registration order
Catalog ==
    <<"US P/E Ratio", "US CAPE Ratio", "US Credit Spreads",
      "US Stock Market / GDP", "US GDP", "US Government Debt & Deficit",
      "US 10-Year Yield", "US Inflation Rate", "US Equity Risk Premium",
      "US Earnings Growth", "Gold Price", "Bitcoin Price",
      "WTI Crude Oil Price", AllMetrics>>

CatalogNames == {Catalog[k] : k \in 1..Len(Catalog)}

\* the source label registered with each name
Source(name) ==
    CASE name = "US P/E Ratio" -> Str("Yahoo Finance - VTI (Total US Market)")
      [] name = "US CAPE Ratio" -> Str("Robert Shiller's Dataset")
      [] name = "US Credit Spreads" -> Str("FRED - Moody's BAA Corporate Bond")
      [] name = "US Stock Market / GDP" ->
            Str("FRED - Stock Market Capitalization to GDP")
      [] name = "US GDP" -> Str("FRED - Bureau of Economic Analysis")
      [] name = "US Government Debt & Deficit" -> Str("FRED - Treasury Department")
      [] name = "US 10-Year Yield" -> Str("FRED - Treasury Department")
      [] name = "US Inflation Rate" -> Str("FRED - Bureau of Labor Statistics")
      [] name = "US Equity Risk Premium" -> Str("NYU Stern - Aswath Damodaran")
      [] name = "US Earnings Growth" -> Str("FRED - Corporate Profits")
      [] name = "Gold Price" -> Str("Yahoo Finance - Gold Futures (GC=F)")
      [] name = "Bitcoin Price" -> Str("Yahoo Finance - BTC-USD")
      [] name = "WTI Crude Oil Price" ->
            Str("Yahoo Finance - Crude Oil Futures (CL=F)")
      [] OTHER -> Str("Multiple Sources")

\* a lookup that answers every name: metric_map.get(name, default)
LookupWithDefault(name) == [found |-> TRUE, source |-> Source(name)]

\* metric_map[metric_name]: a KeyError when the name is not registered
Lookup(name) ==
    IF name \in CatalogNames
    THEN [found |-> TRUE, source |-> Source(name)]
    ELSE [found |-> FALSE, source |-> Null]

\* a table in which the market-to-GDP ratio is filed under gdp
NormalizeRatioAsGdp(name) ==
    CASE name = "US P/E Ratio" -> "pe_ratio"
      [] name = "US CAPE Ratio" -> "cape_ratio"
      [] name = "US Credit Spreads" -> "credit_spreads"
      [] name = "US Stock Market / GDP" -> "gdp"
      [] name = "US GDP" -> "gdp"
      [] name = "US Government Debt & Deficit" -> "government"
      [] name = "US 10-Year Yield" -> "10yr_yield"
      [] name = "US Inflation Rate" -> "inflation_rate"
      [] name = "US Equity Risk Premium" -> "equity_risk_premium"
      [] name = "US Earnings Growth" -> "earnings_growth"
      [] name = "Gold Price" -> "gold_price"
      [] name = "Bitcoin Price" -> "bitcoin_price"
      [] name = "WTI Crude Oil Price" -> "wti_crude_price"
      [] OTHER -> name

\* metric_name.lower().replace(' ', '_') of the names the model uses
LowerSnake(name) == IF name = AllMetrics THEN "us_all_metrics" ELSE name

_normalize_metric_name(name) ==
    CASE name = "US P/E Ratio" -> "pe_ratio"
      [] name = "US CAPE Ratio" -> "cape_ratio"
      [] name = "US Credit Spreads" -> "credit_spreads"
      [] name = "US Stock Market / GDP" -> "market_to_gdp"
      [] name = "US GDP" -> "gdp"
      [] name = "US Government Debt & Deficit" -> "government"
      [] name = "US 10-Year Yield" -> "10yr_yield"
      [] name = "US Inflation Rate" -> "inflation_rate"
      [] name = "US Equity Risk Premium" -> "equity_risk_premium"
      [] name = "US Earnings Growth" -> "earnings_growth"
      [] name = "Gold Price" -> "gold_price"
      [] name = "Bitcoin Price" -> "bitcoin_price"
      [] name = "WTI Crude Oil Price" -> "wti_crude_price"
      [] OTHER -> LowerSnake(name)

----------------------------------------------------------------------------
(* The environment of one call: what each provider call and file operation *)
(* of that call does.  E0 is the environment in which every provider call  *)
(* raises; EnvFor(name) varies the fields the resolver of name reads, a    *)
(* field only on the paths that reach its call; TimestampOutcomes(name)    *)
(* varies the series call of its timestamp.                                *)

NoExportFault == [at |-> "none", k |-> 0]

E0 == [y |-> YRaise, y2 |-> YRaise, f1 |-> FRaise, f2 |-> FRaise, f3 |-> FRaise, ft |-> FRaise,
       dl |-> "fail", tab |-> TabRaise, rm1 |-> "ok", rm2 |-> "ok", imp |-> TRUE,
       ex |-> NoExportFault]

YahooOutcomes == {YRaise, YOk(Null), YOk(Num(0)), YOk(Num(2500))}
\* trailingPE as the risk-premium fallback reads it: it may be negative
PeOutcomes == YahooOutcomes \cup {YOk(Num(-500))}

\* the full series a FRED call returns for a series id when it has data
FredFull(sid) ==
    CASE sid = "CPIAUCSL" -> Ramp(13, 100, 9900, 100)
      [] sid = "CP" -> Ramp(5, 200, 900, 100)
      [] sid = "BAA" -> Ramp(2, 300, 640, 5)
      [] sid = "DGS10" -> Ramp(2, 310, 410, 5)
      [] sid = "GDP" -> Ramp(2, 320, 27000, 500)
      [] sid = "GFDEBTN" -> Ramp(2, 330, 33000, 500)
      [] OTHER -> Ramp(2, 340, 100, 50)

\* the series a FRED call may return for a series id: none, too few for
\* the year-over-year computations, or the full series
FredData(sid) ==
    CASE sid = "CPIAUCSL" -> {<<>>, Ramp(12, 100, 9900, 100), FredFull(sid)}
      [] sid = "CP" -> {<<>>, Ramp(4, 200, 900, 100), FredFull(sid)}
      [] OTHER -> {<<>>, FredFull(sid)}

FredOutcomes(sid) == {FRaise} \cup {FOk(series) : series \in FredData(sid)}

DownloadOutcomes == {"fail", "partial", "ok"}
RemoveOutcomes == {"ok", "raise"}
\* the tables a parsed spreadsheet may hold
ShillerTables ==
    {TabRaise, Tab(FALSE, Null, Null), Tab(TRUE, Null, Null), Tab(TRUE, Num(3200), Obj(400)),
     Tab(TRUE, Str("NA"), Obj(400))}
DamodaranTables ==
    {TabRaise, Tab(FALSE, Null, Null), Tab(TRUE, Null, Null), Tab(TRUE, Num(460), Obj(410)),
     Tab(TRUE, NumeralStr(460, "%"), Obj(410)), Tab(TRUE, Str("n/a"), Obj(410)),
     Tab(TRUE, Obj(410), Obj(410))}

\* whether every provider call of the environment fails (raises, or gives
\* nothing)
AllProvidersFail(e) ==
    /\ ~Truthy(e.y.v)
    /\ e.f1.obs = <<>> /\ e.f2.obs = <<>> /\ e.f3.obs = <<>> /\ e.ft.obs = <<>>
    /\ e.dl # "ok"
\* whether a temporary file cannot be removed in the environment
RemoveFails(e) == e.rm1 = "raise" \/ e.rm2 = "raise"

EnvFor(name) ==
    CASE name \in {"US P/E Ratio", "Gold Price", "Bitcoin Price",
                   "WTI Crude Oil Price"} ->
            {[E0 EXCEPT !.y = y] : y \in YahooOutcomes}
      [] name = "US CAPE Ratio" ->
            {[E0 EXCEPT !.dl = dl] : dl \in DownloadOutcomes \ {"ok"}}
            \cup {[E0 EXCEPT !.dl = "ok", !.tab = tab, !.rm1 = rm1, !.rm2 = rm2] :
                    tab \in ShillerTables, rm1 \in RemoveOutcomes,
                    rm2 \in RemoveOutcomes}
      [] name = "US Credit Spreads" ->
            {[E0 EXCEPT !.f1 = a, !.f2 = b] :
                a \in FredOutcomes("BAA"), b \in FredOutcomes("DGS10")}
      [] name = "US Stock Market / GDP" ->
            {[E0 EXCEPT !.f1 = a] : a \in FredOutcomes("DDDM01USA156NWDB")}
      [] name = "US GDP" ->
            {[E0 EXCEPT !.f1 = a, !.f2 = b] :
                a \in FredOutcomes("GDP"), b \in FredOutcomes("A191RL1Q225SBEA")}
      [] name = "US Government Debt & Deficit" ->
            {[E0 EXCEPT !.f1 = a, !.f2 = b, !.f3 = c] :
                a \in FredOutcomes("GFDEBTN"), b \in FredOutcomes("FYFSD"),
                c \in FredOutcomes("GDP")}
      [] name = "US 10-Year Yield" ->
            {[E0 EXCEPT !.f1 = a] : a \in FredOutcomes("DGS10")}
      [] name = "US Inflation Rate" ->
            {[E0 EXCEPT !.f1 = a] : a \in FredOutcomes("CPIAUCSL")}
      [] name = "US Equity Risk Premium" ->
            {[E0 EXCEPT !.imp = FALSE, !.y = y, !.f1 = a] :
                y \in PeOutcomes, a \in FredOutcomes("DGS10")}
            \cup {[E0 EXCEPT !.dl = dl, !.y = y, !.f1 = a] :
                    dl \in DownloadOutcomes \ {"ok"}, y \in PeOutcomes,
                    a \in FredOutcomes("DGS10")}
            \cup {[E0 EXCEPT !.dl = "ok", !.tab = tab, !.rm1 = rm1, !.rm2 = rm2] :
                    tab \in DamodaranTables, rm1 \in RemoveOutcomes,
                    rm2 \in RemoveOutcomes}
      [] name = "US Earnings Growth" ->
            {[E0 EXCEPT !.f1 = a] : a \in FredOutcomes("CP")}
      [] OTHER -> {E0}

\* the environment of name in which every provider call returns its data
\* and every file operation succeeds
DataEnv(name) ==
    CASE name \in {"US P/E Ratio", "Gold Price", "Bitcoin Price",
                   "WTI Crude Oil Price"} -> [E0 EXCEPT !.y = YOk(Num(2500))]
      [] name = "US CAPE Ratio" ->
            [E0 EXCEPT !.dl = "ok", !.tab = Tab(TRUE, Num(3200), Obj(400))]
      [] name = "US Credit Spreads" ->
            [E0 EXCEPT !.f1 = FOk(FredFull("BAA")), !.f2 = FOk(FredFull("DGS10"))]
      [] name = "US Stock Market / GDP" ->
            [E0 EXCEPT !.f1 = FOk(FredFull("DDDM01USA156NWDB"))]
      [] name = "US GDP" ->
            [E0 EXCEPT !.f1 = FOk(FredFull("GDP")),
                       !.f2 = FOk(FredFull("A191RL1Q225SBEA"))]
      [] name = "US Government Debt & Deficit" ->
            [E0 EXCEPT !.f1 = FOk(FredFull("GFDEBTN")), !.f2 = FOk(FredFull("FYFSD")),
                       !.f3 = FOk(FredFull("GDP"))]
      [] name = "US 10-Year Yield" -> [E0 EXCEPT !.f1 = FOk(FredFull("DGS10"))]
      [] name = "US Inflation Rate" -> [E0 EXCEPT !.f1 = FOk(FredFull("CPIAUCSL"))]
      [] name = "US Equity Risk Premium" ->
            [E0 EXCEPT !.dl = "ok", !.tab = Tab(TRUE, Num(460), Obj(410))]
      [] name = "US Earnings Growth" -> [E0 EXCEPT !.f1 = FOk(FredFull("CP"))]
      [] OTHER -> E0

\* the environment most calls of one get_all_metrics run see: every provider
\* down ("fail") or every provider up ("data")
BaseEnv(base, name) == IF base = "fail" THEN E0 ELSE DataEnv(name)

\* the series call get_timestamp_for_metric makes for name
TimestampOutcomes(name) ==
    CASE name = "US Credit Spreads" -> FredOutcomes("BAA")
      [] name = "US GDP" -> FredOutcomes("GDP")
      [] name = "US Government Debt & Deficit" -> FredOutcomes("GFDEBTN")
      [] OTHER -> {FRaise}

\* the resolver registered for name, run in environment e with temporary
\* files tmp: [raised, val, tmp]
Resolve(name, e, tmp) ==
    CASE name = "US P/E Ratio" -> Out(get_pe_ratio(e.y), tmp)
      [] name = "US CAPE Ratio" -> get_cape_ratio(e.dl, e.tab, e.rm1, e.rm2, tmp)
      [] name = "US Credit Spreads" -> Out(get_credit_spreads(e.f1, e.f2), tmp)
      [] name = "US Stock Market / GDP" -> Out(get_market_to_gdp(e.f1), tmp)
      [] name = "US GDP" -> Out(get_gdp_metrics(e.f1, e.f2), tmp)
      [] name = "US Government Debt & Deficit" ->
            Out(get_government_metrics(e.f1, e.f2, e.f3), tmp)
      [] name = "US 10-Year Yield" -> Out(get_10yr_yield(e.f1), tmp)
      [] name = "US Inflation Rate" -> Out(get_inflation_rate(e.f1), tmp)
      [] name = "US Equity Risk Premium" ->
            get_equity_risk_premium(e.imp, e.dl, e.tab, e.rm1, e.rm2, e.y, e.f1, tmp)
      [] name = "US Earnings Growth" -> Out(get_earnings_growth(e.f1), tmp)
      [] name = "Gold Price" -> Out(get_gold_price(e.y), tmp)
      [] name = "Bitcoin Price" -> Out(get_bitcoin_price(e.y), tmp)
      [] OTHER -> Out(get_wti_crude_price(e.y), tmp)

----------------------------------------------------------------------------
(* Timestamps *)

\* datetime.now().strftime('%Y-%m-%d')
Today == Date(500)
DateNotAvailable == Str("Date not available")

\* series.index[-1].strftime(...) of an unguarded fred.get_series: [ok, val]
LastIndexDate(o) ==
    IF o.st = "raise" \/ o.obs = <<>> THEN [ok |-> FALSE, val |-> Null]
    ELSE [ok |-> TRUE, val |-> Date(Last(o.obs).d)]

\* the date cell of Shiller's sheet as a calendar date: [ok, val].  A cell
\* that is no datetime is a decimal year-and-month, yyyy.ff in hundredths.
ShillerDate(cell) ==
    IF cell.t = "obj" THEN [ok |-> TRUE, val |-> Date(cell.n)]
    ELSE IF cell.t # "num" THEN [ok |-> FALSE, val |-> Null]
    ELSE LET year == cell.n \div 100
             month == (((cell.n % 100) * 12 + 50) \div 100) + 1
         IN IF month \in 1..12
            THEN [ok |-> TRUE, val |-> Date(year * 100 + month)]
            ELSE [ok |-> FALSE, val |-> Null]

\* a resolution that gives None where the series has no last index
TimestampNoneOnFailure(name, ft, tab) ==
    LET series == LastIndexDate(ft)
        seriesDate == IF series.ok THEN series.val ELSE Null
    IN CASE name \in {"US GDP", "US Government Debt & Deficit",
                      "US Inflation Rate", "US Credit Spreads"} -> seriesDate
         [] name = "US CAPE Ratio" ->
                IF tab.st = "raise" \/ ~tab.hasCol \/ tab.cell = Null
                THEN seriesDate
                ELSE LET d == ShillerDate(tab.date)
                     IN IF d.ok THEN d.val ELSE seriesDate
         [] OTHER -> Today

get_timestamp_for_metric(name, ft, tab) ==
    LET series == LastIndexDate(ft)
        seriesDate == IF series.ok THEN series.val ELSE DateNotAvailable
    IN CASE name \in {"US GDP", "US Government Debt & Deficit",
                      "US Inflation Rate", "US Credit Spreads"} -> seriesDate
         [] name = "US CAPE Ratio" ->
                IF tab.st = "raise" \/ ~tab.hasCol \/ tab.cell = Null
                THEN seriesDate
                ELSE LET d == ShillerDate(tab.date)
                     IN IF d.ok THEN d.val ELSE seriesDate
         [] OTHER -> Today

----------------------------------------------------------------------------
(* CSV export *)

NInst == 2
Instances == 1..NInst

NoInstance ==
    [alive |-> FALSE, path |-> "none", headers |-> FALSE, sawData |-> FALSE,
     exportFailed |-> FALSE, initFailed |-> FALSE]

\* an initialization whose except clause leaves the path as it was
InitializeKeepingPath(self, mk, exists, lines) ==
    IF mk = "raise" THEN [self EXCEPT !.initFailed = TRUE]
    ELSE LET file_empty == ~exists \/ Len(lines) = 0
         IN IF file_empty THEN self
            ELSE [self EXCEPT !.headers = TRUE, !.sawData = TRUE]

\* _initialize_csv_export on a sink of the given lines; mk is what
\* os.makedirs does.  sawData records that the sink held data at this point,
\* initFailed that the except clause ran.
_initialize_csv_export(self, mk, exists, lines) ==
    IF mk = "raise" THEN [self EXCEPT !.path = "none", !.initFailed = TRUE]
    ELSE LET file_empty == ~exists \/ Len(lines) = 0
         IN IF file_empty THEN self
            ELSE [self EXCEPT !.headers = TRUE, !.sawData = TRUE]

\* __init__(fred_api_key, csv_export_path)
NewInstance(path, mk, exists, lines) ==
    LET self == [NoInstance EXCEPT !.alive = TRUE, !.path = path]
    IN IF path # "none" THEN _initialize_csv_export(self, mk, exists, lines)
       ELSE self

\* one line of the file; by is the instance that wrote it (0: an earlier run)
Row(by, metric, sub, val, ts, src) ==
    [kind |-> "row", by |-> by, metric |-> metric, sub_metric |-> sub,
     value |-> val, timestamp |-> ts, source |-> src]
HeaderLine(by) ==
    [kind |-> "header", by |-> by, metric |-> "metric", sub_metric |-> "sub_metric",
     value |-> Str("value"), timestamp |-> Str("timestamp"), source |-> Str("source")]

\* a naming that loses the outer key
NestedNameInnerOnly(key, sub_key) == sub_key

\* f"{key}_{sub_key}"
NestedName(key, sub_key) == key \o "_" \o sub_key

RECURSIVE NestedRows(_, _, _, _, _, _)
NestedRows(by, metric, key, items, ts, src) ==
    IF items = <<>> THEN <<>>
    ELSE <<Row(by, metric, NestedName(key, Head(items).k), Head(items).v, ts, src)>>
         \o NestedRows(by, metric, key, Tail(items), ts, src)

RECURSIVE GroupRows(_, _, _, _, _)
GroupRows(by, metric, items, ts, src) ==
    IF items = <<>> THEN <<>>
    ELSE LET e == Head(items)
         IN (IF IsDict(e.v) THEN NestedRows(by, metric, e.k, e.v.sub, ts, src)
             ELSE <<Row(by, metric, e.k, e.v, ts, src)>>)
            \o GroupRows(by, metric, Tail(items), ts, src)

\* rows_to_write of _export_to_csv for the items of data
FlattenRows(by, metric_name, data) ==
    LET timestamp == IF HasKey(data, "timestamp") THEN Get(data, "timestamp")
                     ELSE Today
        popped == Pop(data, "timestamp")
        source == IF HasKey(popped, "source") THEN Get(popped, "source")
                  ELSE Str("Unknown")
        data_copy == Pop(popped, "source")
    IN IF Len(data_copy) = 1 /\ HasKey(data_copy, "value")
       THEN <<Row(by, metric_name, "value", Get(data_copy, "value"), timestamp, source)>>
       ELSE GroupRows(by, metric_name, data_copy, timestamp, source)

\* a file opened with mode='w': the earlier lines are lost
TruncateLines(lines, new) == new

\* open(path, mode='a') and the writes: the file's lines afterwards
AppendLines(lines, new) == lines \o new

\* the points at which an export may fail: open() raises; writeheader()
\* raises; a writerow raises after k rows were written
PartialRows == {0, 1}
ExportFaults ==
    {NoExportFault, [at |-> "open", k |-> 0], [at |-> "header", k |-> 0]}
    \cup {[at |-> "row", k |-> k] : k \in PartialRows}

\* a header with every export
HeaderAlways(self) == TRUE

HeaderDue(self) == ~(sinkExists /\ Len(sink) > 0) \/ ~self.headers

\* whether fault ex can occur when instance i exports data
ExportFaultApplies(i, metric_name, data, ex) ==
    CASE ex.at = "none" -> TRUE
      [] inst[i].path = "none" -> FALSE
      [] ex.at = "header" -> HeaderDue(inst[i])
      [] ex.at = "row" -> ex.k < Len(FlattenRows(i, metric_name, data))
      [] OTHER -> TRUE

\* an except branch that also disables the export
ExportExceptDisables(self) == [self EXCEPT !.exportFailed = TRUE, !.path = "none"]

\* what an exception inside _export_to_csv leaves of the instance
ExportExcept(self) == [self EXCEPT !.exportFailed = TRUE]

\* an export that pops the metadata from the mapping it was given
ExtractFromOriginal(data) == Pop(Pop(data, "timestamp"), "source")

\* the mapping the caller passed, once timestamp and source were popped:
\* the pops act on data_copy = data.copy(), a mapping of its own
DataAfterExtract(data) == data

\* _export_to_csv: [self, sink, exists] afterwards, and data, the mapping
\* the caller passed as the call leaves it; nothing is raised
_export_to_csv(i, metric_name, data, ex) ==
    LET self == inst[i]
        rows == FlattenRows(i, metric_name, data)
        hdr == IF HeaderDue(self) THEN <<HeaderLine(i)>> ELSE <<>>
    IN CASE self.path = "none" ->
                [self |-> self, sink |-> sink, exists |-> sinkExists, data |-> data]
         [] ex.at = "open" ->
                [self |-> ExportExcept(self), sink |-> sink, exists |-> sinkExists,
                 data |-> DataAfterExtract(data)]
         [] ex.at = "header" ->
                [self |-> ExportExcept(self), sink |-> sink, exists |-> TRUE,
                 data |-> DataAfterExtract(data)]
         [] ex.at = "row" ->
                [self |-> ExportExcept([self EXCEPT !.headers = TRUE]),
                 sink |-> AppendLines(sink, hdr \o SubSeq(rows, 1, ex.k)),
                 exists |-> TRUE, data |-> DataAfterExtract(data)]
         [] OTHER ->
                [self |-> [self EXCEPT !.headers = TRUE],
                 sink |-> AppendLines(sink, hdr \o rows), exists |-> TRUE,
                 data |-> DataAfterExtract(data)]

----------------------------------------------------------------------------
(* Single-indicator lookup *)

\* the record get_metric_by_name builds from a resolver's result
WithMetadata(name, val, ft, tab) ==
    IF ~IsDict(val)
    THEN Dict(<<Entry("value", val), Entry("timestamp", Today),
                Entry("source", Lookup(name).source)>>)
    ELSE Dict(Put(Put(val.sub, "timestamp", get_timestamp_for_metric(name, ft, tab)),
                  "source", Lookup(name).source))

\* get_metric_by_name after func() returned val: attach the metadata, export
\* result.copy() when enabled, return the record; passed is the mapping
\* handed to _export_to_csv as the export left it
FinishLookup(i, name, val, ft, tab, ex) ==
    LET result == WithMetadata(name, val, ft, tab)
        x == IF inst[i].path # "none" THEN _export_to_csv(i, name, result.sub, ex)
             ELSE [self |-> inst[i], sink |-> sink, exists |-> sinkExists,
                   data |-> result.sub]
    IN [raised |-> FALSE, val |-> result, self |-> x.self, sink |-> x.sink,
        exists |-> x.exists, passed |-> x.data]

\* get_metric_by_name(name) of a registered, non-aggregate name in
\* environment e: [raised, val, self, sink, exists, tmp, passed]
get_metric_by_name(i, name, e) ==
    LET r == Resolve(name, e, tmpFiles)
    IN IF r.raised
       THEN [raised |-> TRUE, val |-> Null, self |-> inst[i], sink |-> sink,
             exists |-> sinkExists, tmp |-> r.tmp, passed |-> <<>>]
       ELSE LET f == FinishLookup(i, name, r.val, e.ft, e.tab, e.ex)
            IN [raised |-> FALSE, val |-> f.val, self |-> f.self, sink |-> f.sink,
                exists |-> f.exists, tmp |-> r.tmp, passed |-> f.passed]

----------------------------------------------------------------------------
(* Aggregator *)

\* at most MaxDeviations resolvers of one run see another environment than
\* the run's base environment
MaxDeviations == 2

AggIdle ==
    [pc |-> 0, caller |-> "none", i |-> 0, metrics |-> <<>>, log |-> <<>>,
     allFail |-> TRUE, base |-> "fail", dev |-> 0]

\* a pass without the try/except around the resolver
MergeResultNoCatch(metrics, name, r) ==
    IF r.raised THEN [abort |-> TRUE, metrics |-> metrics]
    ELSE IF IsDict(r.val) /\ HasKey(r.val.sub, "value")
    THEN [abort |-> FALSE,
          metrics |-> Put(metrics, _normalize_metric_name(name), Get(r.val.sub, "value"))]
    ELSE IF IsDict(r.val)
    THEN [abort |-> FALSE, metrics |-> PutAll(metrics, r.val.sub)]
    ELSE [abort |-> FALSE,
          metrics |-> Put(metrics, _normalize_metric_name(name), r.val)]

\* a pass that leaves out an indicator whose resolver gave None
MergeResultSkipNone(metrics, name, r) ==
    IF r.raised
    THEN [abort |-> FALSE, metrics |-> Put(metrics, _normalize_metric_name(name), Null)]
    ELSE IF IsDict(r.val) /\ HasKey(r.val.sub, "value")
    THEN [abort |-> FALSE,
          metrics |-> Put(metrics, _normalize_metric_name(name), Get(r.val.sub, "value"))]
    ELSE IF IsDict(r.val)
    THEN [abort |-> FALSE, metrics |-> PutAll(metrics, r.val.sub)]
    ELSE IF r.val = Null THEN [abort |-> FALSE, metrics |-> metrics]
    ELSE [abort |-> FALSE,
          metrics |-> Put(metrics, _normalize_metric_name(name), r.val)]

\* a pass that stores a record with a value entry whole
MergeResultWholeRecord(metrics, name, r) ==
    IF r.raised
    THEN [abort |-> FALSE, metrics |-> Put(metrics, _normalize_metric_name(name), Null)]
    ELSE IF IsDict(r.val) /\ HasKey(r.val.sub, "value")
    THEN [abort |-> FALSE,
          metrics |-> Put(metrics, _normalize_metric_name(name), r.val)]
    ELSE IF IsDict(r.val)
    THEN [abort |-> FALSE, metrics |-> PutAll(metrics, r.val.sub)]
    ELSE [abort |-> FALSE,
          metrics |-> Put(metrics, _normalize_metric_name(name), r.val)]

\* one pass of the loop of get_all_metrics for a resolver outcome r:
\* [abort, metrics]; abort is an exception leaving get_all_metrics
MergeResult(metrics, name, r) ==
    IF r.raised
    THEN [abort |-> FALSE, metrics |-> Put(metrics, _normalize_metric_name(name), Null)]
    ELSE IF IsDict(r.val) /\ HasKey(r.val.sub, "value")
    THEN [abort |-> FALSE,
          metrics |-> Put(metrics, _normalize_metric_name(name), Get(r.val.sub, "value"))]
    ELSE IF IsDict(r.val)
    THEN [abort |-> FALSE, metrics |-> PutAll(metrics, r.val.sub)]
    ELSE [abort |-> FALSE,
          metrics |-> Put(metrics, _normalize_metric_name(name), r.val)]

\* the keys a pass wrote (for the log)
WrittenKeys(before, after) ==
    {k \in Keys(after) : ~HasKey(before, k) \/ Get(before, k) # Get(after, k)}

----------------------------------------------------------------------------
(* State machine *)

MaxCalls == 2

RetNone ==
    [op |-> "none", i |-> 0, name |-> "", raised |-> FALSE, val |-> Null,
     rmRaised |-> FALSE, exportFault |-> FALSE, resolved |-> FALSE,
     passed |-> <<>>, plain |-> Null]

FlatIdle == [name |-> "", data |-> <<>>, rows |-> <<>>, done |-> FALSE]

ResIdle ==
    [name |-> "", env |-> E0, ttab |-> TabRaise, out |-> Out(Ret(Null), {}),
     stamp |-> Null, record |-> Null, merged |-> <<>>,
     direct |-> [val |-> Null, calls |-> 0], done |-> FALSE]

MrgIdle ==
    [first |-> [name |-> "", r |-> Ret(Null)], second |-> [name |-> "", r |-> Ret(Null)],
     pc |-> <<0, 0>>, metrics |-> <<(<<>>), (<<>>)>>]

\* a name outside the catalog
UnknownNames == {"Unlisted Metric"}

\* the sink before the first instance: absent, empty, or left by an earlier run
PriorRun ==
    <<HeaderLine(0),
      Row(0, "US P/E Ratio", "value", Num(2400), Date(499), Source("US P/E Ratio"))>>
InitialSinks ==
    {[exists |-> FALSE, lines |-> <<>>], [exists |-> TRUE, lines |-> <<>>],
     [exists |-> TRUE, lines |-> PriorRun]}

\* USMarketMetrics(fred_api_key, csv_export_path): each instance is built
\* once, and the instances are numbered in the order of their construction
Construct(i, path, mk) ==
    /\ ~inst[i].alive
    /\ \A j \in Instances : j < i => inst[j].alive
    /\ agg.pc = 0
    /\ inst' = [inst EXCEPT ![i] = NewInstance(path, mk, sinkExists, sink)]
    /\ ret' = [RetNone EXCEPT !.op = "__init__", !.i = i]
    /\ UNCHANGED <<sink, sinkExists, tmpFiles, nCalls, agg, flat, res, mrg>>

\* instance i's get_metric_by_name(name), name not the aggregate
LookupOne(i, name, limit) ==
    /\ inst[i].alive
    /\ agg.pc = 0
    /\ nCalls < limit
    /\ nCalls' = nCalls + 1
    /\ UNCHANGED <<agg, flat, res, mrg>>
    /\ IF ~Lookup(name).found
       THEN /\ ret' = [RetNone EXCEPT !.op = "get_metric_by_name", !.i = i,
                                       !.name = name, !.raised = TRUE]
            /\ UNCHANGED <<inst, sink, sinkExists, tmpFiles>>
       ELSE \E e \in EnvFor(name), ft \in TimestampOutcomes(name), ex \in ExportFaults :
              LET env == [e EXCEPT !.ft = ft, !.ex = ex]
                  r == Resolve(name, env, tmpFiles)
                  out == get_metric_by_name(i, name, env)
              IN /\ IF r.raised THEN ex = NoExportFault
                    ELSE ExportFaultApplies(i, name,
                            WithMetadata(name, r.val, ft, env.tab).sub, ex)
                 /\ inst' = [inst EXCEPT ![i] = out.self]
                 /\ sink' = out.sink
                 /\ sinkExists' = out.exists
                 /\ tmpFiles' = out.tmp
                 /\ ret' = [op |-> "get_metric_by_name", i |-> i, name |-> name,
                            raised |-> out.raised, val |-> out.val,
                            rmRaised |-> out.raised /\ RemoveFails(env),
                            exportFault |-> ex.at # "none", resolved |-> TRUE,
                            passed |-> out.passed,
                            plain |-> IF r.raised THEN Null
                                      ELSE WithMetadata(name, r.val, ft, env.tab)]

\* get_all_metrics() is entered: directly, or as the resolver of the
\* aggregate name inside get_metric_by_name
AggStart(i, caller, base, limit) ==
    /\ inst[i].alive
    /\ agg.pc = 0
    /\ nCalls < limit
    /\ nCalls' = nCalls + 1
    /\ caller = "byname" => Lookup(AllMetrics).found
    /\ agg' = [AggIdle EXCEPT !.pc = 1, !.caller = caller, !.i = i, !.base = base]
    /\ ret' = RetNone
    /\ UNCHANGED <<inst, sink, sinkExists, tmpFiles, flat, res, mrg>>

\* a loop that runs the resolver of every entry, the aggregate's too
NoEntrySkipped(name) == FALSE

\* "if metric_name != 'US All Metrics'": the entry the loop passes over
IsAggregateEntry(name) == name = AllMetrics

\* one iteration of the loop over the catalog
AggStep ==
    /\ agg.pc \in 1..Len(Catalog)
    /\ UNCHANGED <<inst, sink, sinkExists, nCalls, flat, res, mrg>>
    /\ LET name == Catalog[agg.pc]
       IN IF IsAggregateEntry(name)
          THEN /\ agg' = [agg EXCEPT !.pc = @ + 1]
               /\ UNCHANGED <<tmpFiles, ret>>
          ELSE \E e \in EnvFor(name) :
                 LET r == Resolve(name, e, tmpFiles)
                     m == MergeResult(agg.metrics, name, r)
                     deviates == e # BaseEnv(agg.base, name)
                 IN /\ deviates => agg.dev < MaxDeviations
                    /\ tmpFiles' = r.tmp
                    /\ IF m.abort
                       THEN /\ agg' = AggIdle
                            /\ ret' = [RetNone EXCEPT
                                         !.op = IF agg.caller = "direct"
                                                THEN "get_all_metrics"
                                                ELSE "get_metric_by_name",
                                         !.i = agg.i,
                                         !.name = IF agg.caller = "direct" THEN ""
                                                  ELSE AllMetrics,
                                         !.raised = TRUE, !.resolved = TRUE]
                       ELSE /\ agg' = [agg EXCEPT
                                         !.pc = @ + 1,
                                         !.metrics = m.metrics,
                                         !.log = Append(@,
                                            [name |-> name, raised |-> r.raised,
                                             rmRaised |-> r.raised /\ RemoveFails(e),
                                             keys |-> WrittenKeys(agg.metrics, m.metrics),
                                             wrote |-> Keys(MergeResult(<<>>, name, r).metrics)]),
                                         !.allFail = @ /\ AllProvidersFail(e),
                                         !.dev = IF deviates THEN @ + 1 ELSE @]
                            /\ UNCHANGED ret

\* the loop is over: get_all_metrics returns metrics, and get_metric_by_name,
\* if it is the caller, finishes with it
AggReturn ==
    /\ agg.pc = Len(Catalog) + 1
    /\ agg' = AggIdle
    /\ UNCHANGED <<tmpFiles, nCalls, flat, res, mrg>>
    /\ IF agg.caller = "direct"
       THEN /\ ret' = [RetNone EXCEPT !.op = "get_all_metrics", !.i = agg.i,
                                       !.val = Dict(agg.metrics),
                                       !.resolved = TRUE]
            /\ UNCHANGED <<inst, sink, sinkExists>>
       ELSE \E ex \in ExportFaults :
              LET f == FinishLookup(agg.i, AllMetrics, Dict(agg.metrics),
                                    FRaise, TabRaise, ex)
              IN /\ ExportFaultApplies(agg.i, AllMetrics,
                        WithMetadata(AllMetrics, Dict(agg.metrics), FRaise, TabRaise).sub,
                        ex)
                 /\ inst' = [inst EXCEPT ![agg.i] = f.self]
                 /\ sink' = f.sink
                 /\ sinkExists' = f.exists
                 /\ ret' = [RetNone EXCEPT !.op = "get_metric_by_name", !.i = agg.i,
                                           !.name = AllMetrics, !.val = f.val,
                                           !.exportFault = ex.at # "none",
                                           !.resolved = TRUE,
                                           !.passed = f.passed,
                                           !.plain = WithMetadata(AllMetrics,
                                                        Dict(agg.metrics), FRaise,
                                                        TabRaise)]

(* Spec: instances are built and look up single indicators, exporting to   *)
(* one CSV file.                                                           *)

SpecNames == {"US P/E Ratio", "US Earnings Growth"} \cup UnknownNames

Init ==
    /\ inst = [i \in Instances |-> NoInstance]
    /\ \E s \in InitialSinks : sink = s.lines /\ sinkExists = s.exists
    /\ tmpFiles = {}
    /\ ret = RetNone
    /\ nCalls = 0
    /\ agg = AggIdle
    /\ flat = FlatIdle
    /\ res = ResIdle
    /\ mrg = MrgIdle

Next ==
    \/ \E i \in Instances, path \in {"none", "csv"}, mk \in {"ok", "raise"} :
            Construct(i, path, mk)
    \/ \E i \in Instances, name \in SpecNames : LookupOne(i, name, MaxCalls)

Spec == Init /\ [][Next]_vars

(* SpecAll: one get_metric_by_name call, of any name, by an instance that   *)
(* exports to a fresh file.  The aggregate name runs get_all_metrics.      *)

InitAll ==
    /\ inst = [i \in Instances |->
                IF i = 1 THEN NewInstance("csv", "ok", FALSE, <<>>) ELSE NoInstance]
    /\ sink = <<>>
    /\ sinkExists = FALSE
    /\ tmpFiles = {}
    /\ ret = RetNone
    /\ nCalls = 0
    /\ agg = AggIdle
    /\ flat = FlatIdle
    /\ res = ResIdle
    /\ mrg = MrgIdle

NextAll ==
    \/ \E name \in (CatalogNames \ {AllMetrics}) \cup UnknownNames :
            LookupOne(1, name, 1)
    \/ \E base \in {"fail", "data"} : AggStart(1, "byname", base, 1)
    \/ AggStep
    \/ AggReturn

SpecAll == InitAll /\ [][NextAll]_vars

(* SpecAllFair: SpecAll where a call that has begun goes on.  The loop of  *)
(* get_all_metrics is sequential code and every provider call of the model *)
(* returns or raises, so the call rests at no entry of the catalog for     *)
(* ever.  (This is what WF_vars(AggStep) /\ WF_vars(AggReturn) states,     *)
(* every step of a running call being enabled; it is written on the        *)
(* position of the loop.)                                                  *)

SpecAllFair ==
    SpecAll /\ \A k \in 1..(Len(Catalog) + 1) : []<>(agg.pc # k)

(* SpecFlat: the flattening of _export_to_csv applied to one record.        *)

FlatNames == {"US Credit Spreads", "US P/E Ratio"}
CreditGroup == Dict(<<Entry("baa", Num(650)), Entry("t10", Num(420))>>)
\* payloads: scalar, flat group, nested group, mixed, empty
FlatPayloads ==
    {<<Entry("value", Num(2500))>>,
     <<Entry("value", Null)>>,
     <<Entry("gdp", Num(27500))>>,
     <<Entry("gdp", Num(27500)), Entry("growth", Null)>>,
     <<Entry("value", Num(100)), Entry("gdp", Num(200))>>,
     <<Entry("credit", CreditGroup)>>,
     <<Entry("gdp", Num(27500)), Entry("credit", CreditGroup)>>,
     <<Entry("credit", CreditGroup), Entry("spread", Num(230))>>,
     <<Entry("credit", Dict(<<>>))>>,
     <<>>}
\* the record's metadata entries, each present or absent
FlatMetadata ==
    {<<>>, <<Entry("timestamp", Date(400))>>, <<Entry("source", Str("FRED"))>>,
     <<Entry("timestamp", Date(400)), Entry("source", Str("FRED"))>>,
     <<Entry("source", Str("FRED")), Entry("timestamp", DateNotAvailable)>>}
FlatInputs == {p \o m : p \in FlatPayloads, m \in FlatMetadata}

InitFlat ==
    /\ inst = [i \in Instances |-> NoInstance]
    /\ sink = <<>>
    /\ sinkExists = FALSE
    /\ tmpFiles = {}
    /\ ret = RetNone
    /\ nCalls = 0
    /\ agg = AggIdle
    /\ res = ResIdle
    /\ mrg = MrgIdle
    /\ \E n \in FlatNames, d \in FlatInputs :
            flat = [name |-> n, data |-> d, rows |-> <<>>, done |-> FALSE]

\* rows_to_write is built from the record
Flatten ==
    /\ ~flat.done
    /\ flat' = [flat EXCEPT !.rows = FlattenRows(0, flat.name, flat.data),
                            !.done = TRUE]
    /\ UNCHANGED <<inst, sink, sinkExists, tmpFiles, ret, nCalls, agg, res,
                   mrg>>

NextFlat == Flatten

SpecFlat == InitFlat /\ [][NextFlat]_vars

(* SpecMerge: the merge of get_all_metrics applied, in registration order, *)
(* to the results of two indicators, among them results that write the     *)
(* same key; two runs on the same results.                                 *)

MergeNames ==
    {"US Credit Spreads", "US GDP", "US Equity Risk Premium", "US Earnings Growth"}

\* what a resolver may give the loop: an exception, None, a number, a group
\* with or without a value entry
MergeResults ==
    {Raised, Ret(Null), Ret(Num(2500)),
     Ret(Dict(<<Entry("gdp", Num(2750000)), Entry("spread", Num(230))>>)),
     Ret(Dict(<<Entry("spread", Num(190)), Entry("growth_rate", Null)>>)),
     Ret(Dict(<<Entry("credit_spreads", Num(100)), Entry("gdp", Null)>>)),
     Ret(Dict(<<Entry("value", Num(460)), Entry("gdp", Num(1))>>))}

Runs == {1, 2}

InitMerge ==
    /\ inst = [i \in Instances |-> NoInstance]
    /\ sink = <<>>
    /\ sinkExists = FALSE
    /\ tmpFiles = {}
    /\ ret = RetNone
    /\ nCalls = 0
    /\ agg = AggIdle
    /\ flat = FlatIdle
    /\ res = ResIdle
    /\ \E a, b \in 1..Len(Catalog) : \E ra, rb \in MergeResults :
            /\ a < b
            /\ Catalog[a] \in MergeNames
            /\ Catalog[b] \in MergeNames
            /\ mrg = [MrgIdle EXCEPT !.first = [name |-> Catalog[a], r |-> ra],
                                     !.second = [name |-> Catalog[b], r |-> rb]]

\* the next pass of the loop in one of the runs: the earlier-registered
\* indicator's result first
MergePass(run) ==
    /\ mrg.pc[run] < 2
    /\ LET x == IF mrg.pc[run] = 0 THEN mrg.first ELSE mrg.second
       IN mrg' = [mrg EXCEPT
                    !.pc[run] = @ + 1,
                    !.metrics[run] = MergeResult(@, x.name, x.r).metrics]
    /\ UNCHANGED <<inst, sink, sinkExists, tmpFiles, ret, nCalls, agg, flat, res>>

NextMerge == \E run \in Runs : MergePass(run)

SpecMerge == InitMerge /\ [][NextMerge]_vars

(* SpecRes: one resolver, with the timestamp and the record             *)
(* get_metric_by_name builds from its result, in one environment drawn    *)
(* from the outcomes of every provider call the resolver can make.        *)

\* a series of n observations: the first, the last, and mid in between
Series3(n, d0, first, mid, last) ==
    [i \in 1..n |-> [d |-> d0 + i,
                     x |-> IF i = n THEN last ELSE IF i = 1 THEN first ELSE mid,
                     nan |-> FALSE]]
\* observations: negative, zero, 100.00, 110.00
ProbeValues == {-5000, 0, 10000, 11000}
\* series around the sample size min: one short, exact, one more
ProbeSeries(min, d0) ==
    {<<>>} \cup {Series3(n, d0, f, m, l) :
                    n \in {min - 1, min, min + 1},
                    f \in ProbeValues, m \in ProbeValues, l \in ProbeValues}
YearOverYearOutcomes(min, d0) ==
    {FRaise} \cup {FOk(series) : series \in ProbeSeries(min, d0)}
\* the GDP series as the debt ratio reads it: its last value may be zero
\* or negative
GdpOutcomes ==
    FredOutcomes("GDP") \cup {FOk(Series3(2, 320, 27000, 27000, 0)),
                             FOk(Series3(2, 320, 27000, 27000, -27500))}
\* the sheet as get_timestamp_for_metric reads it: the date cell is a
\* datetime, a decimal year, or text
StampTables ==
    {TabRaise, Tab(FALSE, Null, Null), Tab(TRUE, Null, Null),
     Tab(TRUE, Num(3200), Obj(400)), Tab(TRUE, Num(3200), Num(202350)),
     Tab(TRUE, Num(3200), Num(202399)), Tab(TRUE, Num(3200), Str("n/a"))}

\* a daily series may end on a day without a value
DailyOutcomes(sid) == FredOutcomes(sid) \cup {FOk(NaNLast(FredFull(sid)))}

ResNames == CatalogNames \ {AllMetrics}

\* the environments in which the resolver of name is run: [env, ttab]
ResEnvs(name) ==
    CASE name \in {"US P/E Ratio", "Gold Price", "Bitcoin Price",
                   "WTI Crude Oil Price"} ->
            {[env |-> [E0 EXCEPT !.y = y, !.y2 = y2], ttab |-> TabRaise] :
                y \in PeOutcomes, y2 \in PeOutcomes}
      [] name = "US CAPE Ratio" ->
            {[env |-> [E0 EXCEPT !.dl = dl, !.tab = tab, !.f1 = a, !.ft = ft],
              ttab |-> ttab] :
                dl \in DownloadOutcomes, tab \in ShillerTables,
                a \in FredOutcomes("CAPE"), ft \in FredOutcomes("CSUSHPINSA"),
                ttab \in StampTables}
      [] name = "US Credit Spreads" ->
            {[env |-> [E0 EXCEPT !.f1 = a, !.f2 = b, !.ft = ft], ttab |-> TabRaise] :
                a \in FredOutcomes("BAA"), b \in DailyOutcomes("DGS10"),
                ft \in FredOutcomes("BAA")}
      [] name = "US Stock Market / GDP" ->
            {[env |-> [E0 EXCEPT !.f1 = a], ttab |-> TabRaise] :
                a \in FredOutcomes("DDDM01USA156NWDB")}
      [] name = "US GDP" ->
            {[env |-> [E0 EXCEPT !.f1 = a, !.f2 = b, !.ft = ft], ttab |-> TabRaise] :
                a \in FredOutcomes("GDP"), b \in FredOutcomes("A191RL1Q225SBEA"),
                ft \in FredOutcomes("GDP")}
      [] name = "US Government Debt & Deficit" ->
            {[env |-> [E0 EXCEPT !.f1 = a, !.f2 = b, !.f3 = c, !.ft = ft],
              ttab |-> TabRaise] :
                a \in FredOutcomes("GFDEBTN"), b \in FredOutcomes("FYFSD"),
                c \in GdpOutcomes, ft \in FredOutcomes("GFDEBTN")}
      [] name = "US 10-Year Yield" ->
            {[env |-> [E0 EXCEPT !.f1 = a], ttab |-> TabRaise] :
                a \in FredOutcomes("DGS10")}
      [] name = "US Inflation Rate" ->
            {[env |-> [E0 EXCEPT !.f1 = a, !.ft = a], ttab |-> TabRaise] :
                a \in YearOverYearOutcomes(MinInflationObs, 100)}
            \cup {[env |-> [E0 EXCEPT !.f1 = a, !.ft = ft], ttab |-> TabRaise] :
                    a \in FredOutcomes("CPIAUCSL"), ft \in FredOutcomes("CPIAUCSL")}
      [] name = "US Equity Risk Premium" ->
            {[env |-> [E0 EXCEPT !.imp = imp, !.dl = dl, !.tab = tab, !.y = y,
                                 !.f1 = a],
              ttab |-> TabRaise] :
                imp \in BOOLEAN, dl \in DownloadOutcomes, tab \in DamodaranTables,
                y \in PeOutcomes, a \in FredOutcomes("DGS10")}
      [] OTHER ->
            {[env |-> [E0 EXCEPT !.f1 = a], ttab |-> TabRaise] :
                a \in YearOverYearOutcomes(MinEarningsObs, 200)}

InitRes ==
    /\ inst = [i \in Instances |-> NoInstance]
    /\ sink = <<>>
    /\ sinkExists = FALSE
    /\ tmpFiles = {}
    /\ ret = RetNone
    /\ nCalls = 0
    /\ agg = AggIdle
    /\ flat = FlatIdle
    /\ mrg = MrgIdle
    /\ \E name \in ResNames : \E e \in ResEnvs(name) :
            res = [ResIdle EXCEPT !.name = name, !.env = e.env, !.ttab = e.ttab]

\* func() of get_metric_by_name, get_timestamp_for_metric, and the record;
\* and the pass of get_all_metrics' loop for the same result, on an empty
\* mapping; for a direct lookup, the provider calls it makes
ResolveOne ==
    /\ ~res.done
    /\ LET out == Resolve(res.name, res.env, {})
       IN res' = [res EXCEPT
                    !.out = out,
                    !.stamp = get_timestamp_for_metric(res.name, res.env.ft, res.ttab),
                    !.record = IF out.raised THEN Null
                               ELSE WithMetadata(res.name, out.val, res.env.ft,
                                                 res.ttab),
                    !.merged = MergeResult(<<>>, res.name, out).metrics,
                    !.direct = IF res.name \in DirectNames
                               THEN DirectLookup(res.name, <<res.env.y, res.env.y2>>)
                               ELSE ResIdle.direct,
                    !.done = TRUE]
    /\ UNCHANGED <<inst, sink, sinkExists, tmpFiles, ret, nCalls, agg, flat,
                   mrg>>

NextRes == ResolveOne

SpecRes == InitRes /\ [][NextRes]_vars

----------------------------------------------------------------------------
(* Properties *)

NonAggregate == CatalogNames \ {AllMetrics}
\* the entries of a record other than its metadata
DataKeys(items) == Keys(items) \ {"timestamp", "source"}
LoggedPasses == 1..Len(agg.log)

\* C1: for every registered name and every combination of provider outcomes
\* (no removal of a temporary file failing), get_metric_by_name raises
\* nothing and returns a record, a mapping that carries a timestamp and a
\* source; and no resolver raises past its own boundary on provider outcomes:
\* a resolver that does raise does so on the removal of its temporary file.
C1_RegisteredLookupNeverRaises ==
    /\ (ret.op = "get_metric_by_name" /\ ret.name \in CatalogNames /\ ~ret.rmRaised)
        => /\ ~ret.raised
           /\ ret.resolved
           /\ IsDict(ret.val)
           /\ HasKey(ret.val.sub, "timestamp")
           /\ HasKey(ret.val.sub, "source")
    /\ \A n \in LoggedPasses : agg.log[n].raised => agg.log[n].rmRaised

\* the aggregate name was looked up while every provider call failed, and
\* the lookup returned a record of nulls
C1_Witness ==
    /\ ret.op = "get_metric_by_name"
    /\ ret.name = AllMetrics
    /\ ~ret.raised
    /\ IsDict(ret.val)
    /\ Cardinality(DataKeys(ret.val.sub)) >= Cardinality(NonAggregate)
    /\ \A k \in DataKeys(ret.val.sub) : Get(ret.val.sub, k) = Null

\* C3: when a resolver raises inside get_all_metrics the fault is absorbed:
\* the pass writes one entry, null, under the indicator's normalized name;
\* the loop goes on with the next indicator of the catalog, so that at its
\* end every non-aggregate indicator has had its pass, in catalog order; and
\* the call that runs the loop raises nothing.
C3_FaultAbsorbedBatchContinues ==
    /\ \A n \in LoggedPasses :
            /\ agg.log[n].name = Catalog[n]
            /\ agg.log[n].raised =>
                  /\ agg.log[n].keys = {_normalize_metric_name(Catalog[n])}
                  /\ HasKey(agg.metrics, _normalize_metric_name(Catalog[n]))
                  /\ Get(agg.metrics, _normalize_metric_name(Catalog[n])) = Null
    /\ agg.pc > 0 =>
            Len(agg.log) = IF agg.pc <= Len(Catalog) - 1 THEN agg.pc - 1
                           ELSE Len(Catalog) - 1
    /\ ret.name = AllMetrics => ~ret.raised

\* the second resolver (CAPE) raised, and the loop ran to its end, merging
\* the data of the indicators after it
C3_Witness ==
    /\ agg.pc = Len(Catalog) + 1
    /\ agg.log[2].raised
    /\ Get(agg.metrics, "cape_ratio") = Null
    /\ Get(agg.metrics, "gdp") # Null
    /\ Get(agg.metrics, "wti_crude_price") # Null

\* C4: the mapping get_all_metrics returns covers every non-aggregate
\* indicator: each has written at least one key, and its keys are in the
\* mapping; when every provider call of the run failed, every value of the
\* mapping is null.
C4_CoversEveryIndicator ==
    agg.pc = Len(Catalog) + 1 =>
        /\ \A name \in NonAggregate :
              \E n \in LoggedPasses :
                  /\ agg.log[n].name = name
                  /\ agg.log[n].keys # {}
                  /\ agg.log[n].keys \subseteq Keys(agg.metrics)
        /\ agg.allFail => \A k \in Keys(agg.metrics) : Get(agg.metrics, k) = Null

\* the loop ended after every provider call failed
C4_Witness ==
    /\ agg.pc = Len(Catalog) + 1
    /\ agg.allFail
    /\ Len(agg.log) = Cardinality(NonAggregate)
    /\ \A k \in Keys(agg.metrics) : Get(agg.metrics, k) = Null

\* C5 (as the claim states it): every value of the mapping of
\* get_all_metrics is a number or null.
C5_OnlyNumbersOrNull ==
    \A k \in Keys(agg.metrics) :
        IsNumber(Get(agg.metrics, k)) \/ Get(agg.metrics, k) = Null

\* C5 (amended): every value of the mapping is a number or null, except
\* recent_date and year_ago_date of the earnings-growth group, which are
\* date strings, and equity_risk_premium, which is the spreadsheet's cell
\* itself when that is neither a number nor a string; no nested mapping and
\* no other string is merged.
C5_NumbersNullOrListedExceptions ==
    \A k \in Keys(agg.metrics) :
        LET v == Get(agg.metrics, k)
        IN \/ IsNumber(v)
           \/ v = Null
           \/ k \in {"recent_date", "year_ago_date"} /\ v.t = "str" /\ v.s = "date"
           \/ k = "equity_risk_premium" /\ v.t = "obj"

\* the earnings-growth group has merged its two date strings, next to its
\* numbers
C5_Witness ==
    /\ HasKey(agg.metrics, "recent_date")
    /\ Get(agg.metrics, "recent_date").t = "str"
    /\ HasKey(agg.metrics, "year_ago_date")
    /\ IsNumber(Get(agg.metrics, "growth_rate"))

\* the last step was a get_metric_by_name call of an instance, for any name
LookupStep == ret'.op = "get_metric_by_name" /\ ret'.i \in Instances
HeaderLines == {n \in 1..Len(sink) : sink[n].kind = "header"}
LinesBy(i) == {n \in 1..Len(sink) : sink[n].by = i}

\* C2: get_metric_by_name of a name that is not registered raises to its
\* caller, before any resolver is invoked and without touching the export:
\* the file, its existence, every instance's header flag and export path,
\* and the temporary files are as they were.
C2_UnknownNameRaisesFirst ==
    [][(LookupStep /\ ret'.name \notin CatalogNames)
          => /\ ret'.raised
             /\ ~ret'.resolved
             /\ UNCHANGED <<sink, sinkExists, inst, tmpFiles>>]_vars

\* an unregistered name was looked up on an instance that exports to a file
\* holding lines
C2_Witness ==
    /\ ret.op = "get_metric_by_name"
    /\ ret.name \in UnknownNames
    /\ ret.raised
    /\ inst[ret.i].path = "csv"
    /\ Len(sink) > 0

\* C6: an instance writes at most one header line, and none when the file
\* held data at its initialisation; so a file that was fresh and holds only
\* the lines of one instance has exactly one header line, its first line,
\* and data lines after it.
C6_OneHeaderFirstPerInstance ==
    \A i \in Instances :
        /\ Cardinality(HeaderLines \cap LinesBy(i)) <= 1
        /\ inst[i].sawData => HeaderLines \cap LinesBy(i) = {}
        /\ (Len(sink) > 0 /\ LinesBy(i) = 1..Len(sink)) => HeaderLines = {1}

\* one instance has exported two records to a fresh file: one header line,
\* then the rows of both
C6_Witness ==
    /\ nCalls = 2
    /\ LinesBy(1) = 1..Len(sink)
    /\ HeaderLines = {1}
    /\ \E n \in 2..Len(sink) : sink[n].metric = "US P/E Ratio"
    /\ \E n \in 2..Len(sink) : sink[n].metric = "US Earnings Growth"

\* C7 (as the claim states it): the header is written only if the file has
\* none yet, so the file never holds more than one header line, whichever
\* instances wrote to it.
C7_OneHeaderPerSink == Cardinality(HeaderLines) <= 1

\* C8 (as the claim states it): once an export of an instance has failed,
\* every later get_metric_by_name of that instance leaves the file as it is.
C8_FailedExportDisablesSink ==
    [][(LookupStep /\ inst[ret'.i].exportFailed) => sink' = sink]_vars

\* C8 (amended): a failure inside _export_to_csv is caught, and
\* get_metric_by_name returns its record; the export stays enabled, with
\* the lines written before the failure kept, and the next export of that
\* instance that does not fail appends its rows.
C8_ExportFaultCaughtExportStaysOn ==
    [][(LookupStep /\ ret'.resolved)
          => /\ ret'.exportFault =>
                    /\ ~ret'.raised
                    /\ IsDict(ret'.val)
                    /\ inst'[ret'.i].exportFailed
                    /\ inst'[ret'.i].path = "csv"
                    /\ IsPrefix(sink, sink')
             /\ (inst[ret'.i].exportFailed /\ ~ret'.raised /\ ~ret'.exportFault)
                    => /\ inst'[ret'.i].path = "csv"
                       /\ Len(sink') > Len(sink)]_vars

\* an export of instance 1 failed, and a later export of instance 1
\* appended its rows
C8_Witness ==
    /\ inst[1].exportFailed
    /\ nCalls = 2
    /\ ret.op = "get_metric_by_name"
    /\ ret.i = 1
    /\ ret.resolved
    /\ ~ret.raised
    /\ ~ret.exportFault
    /\ Len(sink) > 0
    /\ sink[Len(sink)].by = 1

\* C9: the file is append-only: what it held before a step is a prefix of
\* what it holds after, whichever instance acts and whatever an earlier run
\* left; the file never ceases to exist; and an export that does not fail
\* adds rows, also for an indicator exported before.
C9_SinkAppendOnly ==
    [][/\ IsPrefix(sink, sink')
       /\ sinkExists => sinkExists'
       /\ (LookupStep /\ ret'.resolved /\ ~ret'.raised /\ ~ret'.exportFault
             /\ inst[ret'.i].path = "csv")
            => Len(sink') > Len(sink)]_vars

\* after an earlier run's lines the file holds the rows of one indicator
\* twice, exported by two instances
C9_Witness ==
    /\ Len(sink) > Len(PriorRun)
    /\ IsPrefix(PriorRun, sink)
    /\ \E m, n \in 1..Len(sink) :
            /\ m < n
            /\ sink[m].kind = "row" /\ sink[n].kind = "row"
            /\ sink[m].metric = sink[n].metric
            /\ sink[m].sub_metric = sink[n].sub_metric
            /\ sink[m].by = 1 /\ sink[n].by = 2

\* the record without its timestamp and source entries
Payload(data) == Pop(Pop(data, "timestamp"), "source")
IsScalarPayload(p) == Len(p) = 1 /\ p[1].k = "value"
\* the leaves of a payload, by position: <<i, 0>> is entry i itself,
\* <<i, j>> entry j of the group that entry i holds
LeafPositions(p) ==
    IF IsScalarPayload(p) THEN {<<1, 0>>}
    ELSE {<<i, 0>> : i \in {i \in 1..Len(p) : ~IsDict(p[i].v)}}
         \cup UNION {{<<i, j>> : j \in 1..Len(p[i].v.sub)} :
                        i \in {i \in 1..Len(p) : IsDict(p[i].v)}}
\* the sub_metric and value the rule of the row schema gives a leaf
LeafOf(p, pos) ==
    IF pos[2] = 0 THEN [sub_metric |-> p[pos[1]].k, value |-> p[pos[1]].v]
    ELSE [sub_metric |-> p[pos[1]].k \o "_" \o p[pos[1]].v.sub[pos[2]].k,
          value |-> p[pos[1]].v.sub[pos[2]].v]
RowLeaves(rows) ==
    {[sub_metric |-> rows[n].sub_metric, value |-> rows[n].value] : n \in 1..Len(rows)}

\* C10: a record is flattened into exactly one row per leaf value of its
\* payload (the record without timestamp and source): sub_metric "value" for
\* a scalar payload, the sub-key for an entry of a flat group and
\* "<outer>_<inner>" for an entry of a nested group; every row carries the
\* record's metric name and one and the same timestamp and source.
C10_FlattenOneRowPerLeaf ==
    flat.done =>
        LET p == Payload(flat.data)
            rows == flat.rows
        IN /\ Len(rows) = Cardinality(LeafPositions(p))
           /\ RowLeaves(rows) = {LeafOf(p, pos) : pos \in LeafPositions(p)}
           /\ IsScalarPayload(p) => rows[1].sub_metric = "value"
           /\ \A n \in 1..Len(rows) :
                /\ rows[n].kind = "row"
                /\ rows[n].metric = flat.name
                /\ rows[n].timestamp = rows[1].timestamp
                /\ rows[n].source = rows[1].source
                /\ HasKey(flat.data, "timestamp") =>
                        rows[n].timestamp = Get(flat.data, "timestamp")
                /\ HasKey(flat.data, "source") =>
                        rows[n].source = Get(flat.data, "source")

\* a nested group next to a flat entry has been flattened to credit_baa,
\* credit_t10 and the flat entry's own key
C10_Witness ==
    /\ flat.done
    /\ Len(flat.rows) = 3
    /\ \E n \in 1..3 : flat.rows[n].sub_metric = "credit_baa"
    /\ \E n \in 1..3 : flat.rows[n].sub_metric = "credit_t10"
    /\ \E n \in 1..3 : flat.rows[n].sub_metric = "gdp"

\* whether the spreadsheet resolver's primary source failed as a whole: the
\* download failed, the sheet could not be read, or the column is not there
DownloadFailed(e) == e.dl # "ok"
ColumnMissing(e) == e.dl = "ok" /\ e.tab.st = "ok" /\ ~e.tab.hasCol

\* C11 (as the claim states it): when the download of Shiller's sheet fails
\* or the CAPE column is not found, get_cape_ratio returns what
\* _get_cape_from_fred gives, so null only when the FRED series fails too.
C11_CapeFallsBackToFred ==
    (res.done /\ res.name = "US CAPE Ratio"
        /\ (DownloadFailed(res.env) \/ ColumnMissing(res.env)))
        => /\ ~res.out.raised
           /\ res.out.val = _get_cape_from_fred(res.env.f1).val

\* the cell of the sheet's column cannot be made a number, also not after
\* its percent sign is stripped
CellNotNumeric(e) ==
    /\ e.dl = "ok" /\ e.tab.st = "ok" /\ e.tab.hasCol
    /\ e.tab.cell # Null
    /\ ~ErpCoerce(e.tab.cell).ok

\* C12 (as the claim states it): when the download of Damodaran's sheet
\* fails, the ERP column is not found, or the cell cannot be coerced to a
\* number, get_equity_risk_premium returns what
\* _calculate_equity_risk_premium computes.
C12_ErpSwitchesToCalculation ==
    (res.done /\ res.name = "US Equity Risk Premium" /\ res.env.imp
        /\ (DownloadFailed(res.env) \/ ColumnMissing(res.env)
              \/ CellNotNumeric(res.env)))
        => /\ ~res.out.raised
           /\ res.out.val = _calculate_equity_risk_premium(res.env.y, res.env.f1).val

\* the environment sends get_equity_risk_premium to the computation
CalculationTaken(e) == ~e.imp \/ DownloadFailed(e)
\* the number a provider outcome holds, if any
QuoteIsNumber(o) == o.st = "ok" /\ o.v.t = "num"
SeriesHasData(o) == o.st = "ok" /\ o.obs # <<>>
NullPayload == Dict(<<Entry("value", Null)>>)

\* C13: _calculate_equity_risk_premium raises nothing and never divides by
\* a price ratio that is null, zero or negative: for such a P/E it returns
\* {value: null}; for a positive P/E and no 10-year yield it returns
\* {value: null}; otherwise its value is 100 / P/E minus the 10-year yield.
C13_CalculationGuardsPriceRatio ==
    (res.done /\ res.name = "US Equity Risk Premium" /\ CalculationTaken(res.env))
        => LET y == res.env.y
               dgs == res.env.f1
               positive == QuoteIsNumber(y) /\ y.v.n > 0
           IN /\ ~res.out.raised
              /\ IsDict(res.out.val)
              /\ ~positive => res.out.val = NullPayload
              /\ (positive /\ ~SeriesHasData(dgs)) => res.out.val = NullPayload
              /\ (positive /\ SeriesHasData(dgs)) =>
                    Get(res.out.val.sub, "value")
                        = Num((1000000 \div y.v.n) - Last(dgs.obs).x)

\* a price ratio of 0 gave the null payload
C13_Witness ==
    /\ res.done
    /\ res.name = "US Equity Risk Premium"
    /\ CalculationTaken(res.env)
    /\ res.env.y = YOk(Num(0))
    /\ SeriesHasData(res.env.f1)
    /\ res.out.val = NullPayload

AllNull(v) == IsDict(v) /\ \A k \in Keys(v.sub) : Get(v.sub, k) = Null
NoneNull(v) == IsDict(v) /\ \A k \in Keys(v.sub) : Get(v.sub, k) # Null
\* the series a composite resolver fetches, by the environment's fields
CompositeInputs(name, e) ==
    CASE name = "US Government Debt & Deficit" -> {e.f1, e.f2, e.f3}
      [] OTHER -> {e.f1, e.f2}
Composites == {"US Credit Spreads", "US GDP", "US Government Debt & Deficit"}

\* C14 (as the claim states it): a composite resolver of which any input
\* series is absent or empty returns a group with every sub-key null, the
\* GDP series of the debt ratio included.
C14_AnyInputMissingAllNull ==
    (res.done /\ res.name \in Composites
        /\ \E o \in CompositeInputs(res.name, res.env) : ~SeriesHasData(o))
        => AllNull(res.out.val)

\* C14 (amended): get_credit_spreads and get_gdp_metrics return every
\* sub-key null when one of their two series is absent or empty, and
\* get_government_metrics when the debt or the deficit series is; when only
\* the GDP series is absent or empty, get_government_metrics returns
\* govt_debt and govt_deficit as numbers and debt_to_gdp null.  A group
\* returned with every input present has no null sub-key.
C14_AllNullButForDebtRatio ==
    (res.done /\ res.name \in Composites)
        => LET e == res.env
               v == res.out.val
           IN /\ ~res.out.raised
              /\ (~SeriesHasData(e.f1) \/ ~SeriesHasData(e.f2)) => AllNull(v)
              /\ ((\A o \in CompositeInputs(res.name, e) : SeriesHasData(o))
                    /\ IsDict(v)) => NoneNull(v)
              /\ (res.name = "US Government Debt & Deficit"
                    /\ SeriesHasData(e.f1) /\ SeriesHasData(e.f2)
                    /\ ~SeriesHasData(e.f3))
                    => /\ Get(v.sub, "govt_debt") = Num(Last(e.f1.obs).x)
                       /\ Get(v.sub, "govt_deficit") = Num(Last(e.f2.obs).x)
                       /\ Get(v.sub, "debt_to_gdp") = Null

\* debt and deficit were there and the GDP series was empty: two numbers
\* and a null
C14_Witness ==
    /\ res.done
    /\ res.name = "US Government Debt & Deficit"
    /\ res.env.f3 = FOk(<<>>)
    /\ IsNumber(Get(res.out.val.sub, "govt_debt"))
    /\ IsNumber(Get(res.out.val.sub, "govt_deficit"))
    /\ Get(res.out.val.sub, "debt_to_gdp") = Null

\* C15 (as the claim states it): with a BAA and a 10-year series that both
\* hold observations, get_credit_spreads returns a group: baa_yield, the
\* last BAA observation, treasury_10y, the last 10-year observation, and
\* baa_spread, the first minus the second (6.50 and 4.20 give 2.30); with
\* an empty 10-year series it returns the three sub-keys null.
C15_CreditSpreadIsDifference ==
    (res.done /\ res.name = "US Credit Spreads")
        => LET baa == res.env.f1
               dgs == res.env.f2
               v == res.out.val
           IN /\ ~res.out.raised
              /\ dgs = FOk(<<>>) => AllNull(v)
              /\ (SeriesHasData(baa) /\ SeriesHasData(dgs)) =>
                    /\ IsDict(v)
                    /\ Keys(v.sub) = {"baa_yield", "treasury_10y", "baa_spread"}
                    /\ Get(v.sub, "baa_yield") = ObsVal(Last(baa.obs))
                    /\ Get(v.sub, "treasury_10y") = ObsVal(Last(dgs.obs))
                    /\ (~Last(baa.obs).nan /\ ~Last(dgs.obs).nan) =>
                          Get(v.sub, "baa_spread")
                              = Num(Last(baa.obs).x - Last(dgs.obs).x)

GrowthNullPayload == Dict(<<Entry("growth_rate", Null)>>)

\* C16: get_inflation_rate returns null for every series of fewer than 13
\* observations, the empty one and one of exactly 12 included, whatever the
\* observations are, and a number for 13 or more; get_earnings_growth
\* returns {growth_rate: null} for every series of fewer than 5
\* observations, and a growth rate for 5 or more with a positive base.
C16_MinimumSampleSize ==
    /\ (res.done /\ res.name = "US Inflation Rate" /\ res.env.f1.st = "ok")
          => LET n == Len(res.env.f1.obs)
             IN /\ ~res.out.raised
                /\ n < 13 => res.out.val = Null
                /\ n >= 13 => IsNumber(res.out.val)
    /\ (res.done /\ res.name = "US Earnings Growth" /\ res.env.f1.st = "ok")
          => LET obs == res.env.f1.obs
                 n == Len(obs)
             IN /\ ~res.out.raised
                /\ n < 5 => res.out.val = GrowthNullPayload
                /\ (n >= 5 /\ obs[n - 4].x > 0) =>
                      IsNumber(Get(res.out.val.sub, "growth_rate"))

\* a series of exactly 12 observations, which would give a rate between its
\* first and last, gave null
C16_Witness ==
    /\ res.done
    /\ res.name = "US Inflation Rate"
    /\ res.env.f1.st = "ok"
    /\ Len(res.env.f1.obs) = 12
    /\ res.env.f1.obs[1].x = 10000
    /\ res.env.f1.obs[12].x = 11000
    /\ res.out.val = Null

\* (last / base - 1) * 100, in hundredths of a percent
YearOverYear(last, base) == Num(((last * 10000) \div base) - 10000)

\* C17: for a series of n >= 13 observations get_inflation_rate returns
\* (last / x - 1) * 100 with x the observation 12 positions before the last
\* (the first one when n = 13), whatever the other observations are: 100
\* and 110 give 10 percent.  get_earnings_growth gives the same of the
\* observation 4 positions before the last as its growth_rate.  (x is not
\* zero, and positive for the earnings.)
C17_YearOverYearOfTwoObservations ==
    /\ (res.done /\ res.name = "US Inflation Rate" /\ res.env.f1.st = "ok"
            /\ Len(res.env.f1.obs) >= 13)
          => LET obs == res.env.f1.obs
                 n == Len(obs)
             IN obs[n - 12].x # 0 =>
                    res.out.val = YearOverYear(obs[n].x, obs[n - 12].x)
    /\ (res.done /\ res.name = "US Earnings Growth" /\ res.env.f1.st = "ok"
            /\ Len(res.env.f1.obs) >= 5)
          => LET obs == res.env.f1.obs
                 n == Len(obs)
             IN obs[n - 4].x > 0 =>
                    Get(res.out.val.sub, "growth_rate")
                        = YearOverYear(obs[n].x, obs[n - 4].x)

\* 13 observations, the first 100.00, the last 110.00, zeros in between:
\* 10.00 percent
C17_Witness ==
    /\ res.done
    /\ res.name = "US Inflation Rate"
    /\ res.env.f1.st = "ok"
    /\ Len(res.env.f1.obs) = 13
    /\ res.env.f1.obs[1].x = 10000
    /\ res.env.f1.obs[2].x = 0
    /\ res.env.f1.obs[13].x = 11000
    /\ res.out.val = Num(1000)

\* C18 (as the claim states it): a ratio or growth computation whose
\* denominator is zero or negative returns null: get_inflation_rate for the
\* observation 12 months back, get_earnings_growth (as growth_rate) for the
\* one 4 quarters back, get_government_metrics (as debt_to_gdp) for the
\* latest GDP.
C18_NonPositiveDenominatorGivesNull ==
    /\ (res.done /\ res.name = "US Inflation Rate" /\ res.env.f1.st = "ok"
            /\ Len(res.env.f1.obs) >= 13)
          => LET obs == res.env.f1.obs
             IN obs[Len(obs) - 12].x <= 0 => res.out.val = Null
    /\ (res.done /\ res.name = "US Earnings Growth" /\ res.env.f1.st = "ok"
            /\ Len(res.env.f1.obs) >= 5)
          => LET obs == res.env.f1.obs
             IN obs[Len(obs) - 4].x <= 0 => res.out.val = GrowthNullPayload
    /\ (res.done /\ res.name = "US Government Debt & Deficit"
            /\ SeriesHasData(res.env.f1) /\ SeriesHasData(res.env.f2)
            /\ SeriesHasData(res.env.f3))
          => (Last(res.env.f3.obs).x <= 0
                => Get(res.out.val.sub, "debt_to_gdp") = Null)

\* the names whose timestamp is the last index of a series, and CAPE, whose
\* timestamp is read from the sheet and, failing that, from a series
SeriesStamped ==
    {"US GDP", "US Government Debt & Deficit", "US Inflation Rate",
     "US Credit Spreads"}
SheetUnreadable(tab) ==
    tab.st = "raise" \/ ~tab.hasCol \/ tab.cell = Null \/ ~ShillerDate(tab.date).ok

C20_SeriesDateWhateverTheShape ==
    (res.done /\ res.name \in SeriesStamped /\ ~res.out.raised
        /\ SeriesHasData(res.env.ft))
        => Get(res.record.sub, "timestamp") = LastIndexDate(res.env.ft).val

SheetBacked == {"US CAPE Ratio", "US Equity Risk Premium"}
TempOf(name) == IF name = "US CAPE Ratio" THEN ShillerTemp ELSE DamodaranTemp

\* C21: after get_cape_ratio or get_equity_risk_premium returns, on every
\* path (download failed before, during or after writing the file, parse
\* failed, column missing, coercion failed, success), its temporary file
\* does not exist.
C21_TempFileGoneOnReturn ==
    (res.done /\ res.name \in SheetBacked /\ ~res.out.raised)
        => TempOf(res.name) \notin res.out.tmp

\* the place of a name in the catalog
Registered(name) == CHOOSE k \in 1..Len(Catalog) : Catalog[k] = name

C22_OncePerEntryInOrder ==
    /\ agg.pc \in 0..(Len(Catalog) + 1)
    /\ \A n \in LoggedPasses :
            /\ agg.log[n].name \in CatalogNames
            /\ agg.log[n].name # AllMetrics
    /\ \A m, n \in LoggedPasses :
            m < n => Registered(agg.log[m].name) < Registered(agg.log[n].name)
    /\ agg.pc = Len(Catalog) + 1 =>
            /\ Len(agg.log) = 13
            /\ {agg.log[n].name : n \in LoggedPasses} = NonAggregate

\* C22: get_all_metrics terminates: its loop runs the resolver of each of
\* the 13 non-aggregate entries exactly once, in registration order, never
\* the aggregate entry's, and a call that has begun comes to its end.
C22_AggregateTerminatesNoRecursion ==
    /\ [](C22_OncePerEntryInOrder)
    /\ (agg.pc > 0) ~> (agg.pc = 0)

\* the loop has reached its end with every provider up: 13 passes, the
\* last one the last non-aggregate entry's
C22_Witness ==
    /\ agg.pc = Len(Catalog) + 1
    /\ agg.base = "data"
    /\ Len(agg.log) = 13
    /\ agg.log[1].name = "US P/E Ratio"
    /\ agg.log[13].name = "WTI Crude Oil Price"
    /\ agg.dev = 0

\* C23: in get_all_metrics a scalar result contributes exactly one key, the
\* indicator's normalized name, and a group result contributes every one of
\* its sub-keys, un-prefixed, with its value: no sub-key of a group is
\* dropped, the groups of the equity-risk-premium resolver included.
C23_EverySubKeyContributed ==
    (res.done /\ ~res.out.raised) =>
        IF IsDict(res.out.val)
        THEN /\ Keys(res.merged) = Keys(res.out.val.sub)
             /\ \A k \in Keys(res.merged) :
                    Get(res.merged, k) = Get(res.out.val.sub, k)
        ELSE res.merged = <<Entry(_normalize_metric_name(res.name), res.out.val)>>

\* the entries one pass writes for a result, and the keys written by both
\* indicators of a merge
PassOf(x) == MergeResult(<<>>, x.name, x.r).metrics
Colliding == Keys(PassOf(mrg.first)) \cap Keys(PassOf(mrg.second))

ZeroLike(v) == v = Null \/ v = Num(0)

DecimalDateRead(tab) ==
    tab.st = "ok" /\ tab.hasCol /\ tab.cell # Null /\ tab.date.t = "num"

\* C26: for the CAPE indicator get_timestamp_for_metric converts every
\* decimal year-and-month cell, year.fraction with 0 <= fraction < 1, to a
\* calendar date of that year whose month is in 1..12; the alternate series
\* is not used when such a cell was read.
C26_DecimalYearAlwaysConverts ==
    (res.done /\ res.name = "US CAPE Ratio" /\ DecimalDateRead(res.ttab)) =>
        /\ res.stamp.s = "date"
        /\ res.stamp.n \div 100 = res.ttab.date.n \div 100
        /\ (res.stamp.n % 100) \in 1..12

RECURSIVE FailRun(_, _)
\* the mapping of a get_all_metrics run in which every provider call raises
FailRun(k, metrics) ==
    IF k > Len(Catalog) THEN metrics
    ELSE IF IsAggregateEntry(Catalog[k]) THEN FailRun(k + 1, metrics)
    ELSE FailRun(k + 1,
                 MergeResult(metrics, Catalog[k], Resolve(Catalog[k], E0, {})).metrics)

\* C27: the keys of the mapping get_all_metrics returns are the same for
\* every combination of provider outcomes (those of a run in which every
\* provider fails): the outcomes change the values only.
C27_KeySetIndependentOfOutcomes ==
    agg.pc = Len(Catalog) + 1 => Keys(agg.metrics) = Keys(FailRun(1, <<>>))

\* C28: with the catalog as registered no key of the mapping of
\* get_all_metrics is written by two indicators, whatever the providers do:
\* the normalized names of the 13 non-aggregate indicators are pairwise
\* distinct, the keys two passes write are disjoint, and so no pass changes
\* or rewrites an entry an earlier pass made.
C28_NoKeyWrittenTwice ==
    /\ \A a, b \in NonAggregate :
            a # b => _normalize_metric_name(a) # _normalize_metric_name(b)
    /\ \A m, n \in LoggedPasses :
            m # n => agg.log[m].wrote \cap agg.log[n].wrote = {}
    /\ \A n \in LoggedPasses : agg.log[n].keys = agg.log[n].wrote
    /\ Keys(agg.metrics) = UNION {agg.log[n].wrote : n \in LoggedPasses}

\* the loop is over with every provider up: the GDP group wrote gdp and
\* gdp_growth, the market-to-GDP ratio its own key, and the mapping has
\* the 22 keys the passes wrote
C28_Witness ==
    /\ agg.pc = Len(Catalog) + 1
    /\ agg.dev = 0
    /\ agg.base = "data"
    /\ agg.log[4].wrote = {"market_to_gdp"}
    /\ agg.log[5].wrote = {"gdp", "gdp_growth"}
    /\ Cardinality(Keys(agg.metrics)) = 22

\* C29: an instance without an export path, or whose _initialize_csv_export
\* failed, has its export disabled: a failed initialization leaves no path
\* and no header flag; a get_metric_by_name of such an instance leaves the
\* file, its existence and the instance as they were, meets no export
\* fault and, for a registered name, raises nothing but a failed removal of
\* a temporary file; and _export_to_csv returns at once, whatever the file
\* operations would have done.
C29_DisabledExportTouchesNothing ==
    [][/\ \A i \in Instances :
            inst'[i].initFailed => inst'[i].path = "none" /\ ~inst'[i].headers
       /\ \A i \in Instances : \A ex \in ExportFaults :
            inst[i].path = "none" =>
                _export_to_csv(i, "US P/E Ratio", <<Entry("value", Num(2500))>>, ex)
                    = [self |-> inst[i], sink |-> sink, exists |-> sinkExists,
                       data |-> <<Entry("value", Num(2500))>>]
       /\ (LookupStep /\ inst[ret'.i].path = "none") =>
            /\ sink' = sink
            /\ sinkExists' = sinkExists
            /\ inst'[ret'.i] = inst[ret'.i]
            /\ ~ret'.exportFault
            /\ (ret'.name \in CatalogNames /\ ~ret'.rmRaised) => ~ret'.raised]_vars

\* the initialization of instance 1 failed, instance 1 then looked up an
\* indicator and got its record, and there is still no file
C29_Witness ==
    /\ inst[1].initFailed
    /\ inst[1].path = "none"
    /\ ~inst[1].headers
    /\ ret.op = "get_metric_by_name"
    /\ ret.i = 1
    /\ ret.resolved
    /\ ~ret.raised
    /\ IsDict(ret.val)
    /\ ~sinkExists
    /\ sink = <<>>

====
